---- MODULE Spec2Model ----
(***************************************************************************)
(* Hybrid search ranking engine of the blog backend:                       *)
(*   - score fusion (app/services/scoring.py),                             *)
(*   - the retrieval orchestrator BackendSearchService                     *)
(*     (backend/services/search_service.py).                               *)
(*                                                                         *)
(* Floats are modelled as exact rationals <<n, d>> (d > 0, reduced);       *)
(* rounding is not modelled, math.isclose(a, b) is equality.               *)
(***************************************************************************)
EXTENDS Integers, Sequences, FiniteSets, TLC

(***************************************************************************)
(* Bounds of the model                                                     *)
(***************************************************************************)
\* number of search calls (request threads) that run on one service instance
NumCalls == 2
\* largest page_index a caller asks for
MaxPage == 1
\* largest k (requested result count) and largest page_size
MaxK == 2
MaxPageSize == 2
\* longest candidate list handed directly to fuse_articles / fuse_authors
MaxRows == 3
\* longest id list handed to _batch_get_documents
MaxIds == 3
\* longest list of raw values handed to _minmax
MaxValues == 3
\* longest author list handed directly to _fuzzy_match_authors
MaxAuthors == 3
\* oldest timestamp handed directly to business_freshness, in half-lives
MaxHalfLives == 4
\* longest candidate list with a malformed candidate
MaxMalformedRows == 2
\* search calls running at once on one service instance
MaxPoolCalls == 3
\* the clock of the recommendation cache: minutes per tick, and ticks
TickMinutes == 30
MaxTicks == 3
\* longest result list the search hands to the recommendation service
MaxSearchResults == 2
\* user documents in the users container
MaxUsers == 2

None == "None"
\* page_index / page_size not given (Optional[int] = None)
NoPage == 0 - 1

(***************************************************************************)
(* Exact rational arithmetic standing for Python floats                    *)
(***************************************************************************)
RECURSIVE GCD(_, _)
GCD(a, b) == IF b = 0 THEN a ELSE GCD(b, a % b)

Abs(x) == IF x < 0 THEN -x ELSE x

R(n, d) ==
    LET g == GCD(Abs(n), d)
    IN  IF n = 0 THEN <<0, 1>> ELSE <<n \div g, d \div g>>

Zero == <<0, 1>>
One == <<1, 1>>

RAdd(a, b) == R(a[1] * b[2] + b[1] * a[2], a[2] * b[2])
RSub(a, b) == R(a[1] * b[2] - b[1] * a[2], a[2] * b[2])
RMul(a, b) == R(a[1] * b[1], a[2] * b[2])
\* a / b for b > 0
RDiv(a, b) == R(a[1] * b[2], a[2] * b[1])
RLt(a, b) == a[1] * b[2] < b[1] * a[2]
RLe(a, b) == a[1] * b[2] <= b[1] * a[2]

\* min(vs) / max(vs) of a non-empty sequence of rationals
RMinSeq(vs) == CHOOSE v \in {vs[i] : i \in DOMAIN vs} :
                   \A i \in DOMAIN vs : RLe(v, vs[i])
RMaxSeq(vs) == CHOOSE v \in {vs[i] : i \in DOMAIN vs} :
                   \A i \in DOMAIN vs : RLe(vs[i], v)

\* math.floor of a non-negative rational (int(x) of a non-negative float)
Floor(a) == a[1] \div a[2]

(***************************************************************************)
(* SETTINGS (config/settings.py)                                           *)
(***************************************************************************)
w_semantic == R(5, 10)
w_bm25 == R(3, 10)
w_vector == R(1, 10)
w_business == R(1, 10)

aw_semantic == R(6, 10)
aw_bm25 == R(4, 10)
aw_vector == Zero
aw_business == Zero

\* SETTINGS.freshness_halflife_days
freshness_halflife_days == 250

(***************************************************************************)
(* scoring.py                                                              *)
(***************************************************************************)
\* dict.get(key, default)
Get(r, key, default) == IF key \in DOMAIN r THEN r[key] ELSE default

\* _minmax(vs)
Minmax(vs) ==
    IF vs = <<>> THEN <<Zero, One>>
    ELSE LET vmin == RMinSeq(vs)
             vmax == RMaxSeq(vs)
         IN  IF vmin = vmax THEN <<Zero, One>> ELSE <<vmin, vmax>>

\* _norm(v, bounds)
Norm(v, bounds) ==
    LET vmin == bounds[1]
        vmax == bounds[2]
    IN  IF vmin = vmax THEN One
        ELSE RDiv(RSub(v, vmin), RSub(vmax, vmin))

\* 2^h
RECURSIVE Pow2(_)
Pow2(h) == IF h = 0 THEN 1 ELSE 2 * Pow2(h - 1)

\* A business_date value: absent (None), an unparseable string, or a
\* parseable timestamp given by its age in days at the time of the call.
\* Ages are whole multiples of the half-life, so that
\* exp(-ln 2 * age / half_life) = 1 / 2^(age / half_life) is exact.
NoDate == [kind |-> "none"]
GarbageDate == [kind |-> "garbage"]
DateAged(days) == [kind |-> "date", age |-> days]

\* the other values business_freshness tells apart: the empty string, a
\* string in one of the tolerated formats, a datetime (naive or aware), an
\* epoch number (seconds or milliseconds) of the instant `days` days after
\* 1970-01-01, a dict (empty, without a timestamp key, or holding `value`
\* under one), and a value of any other type
EmptyString == [kind |-> "empty"]
TextDate(form, days) == [kind |-> "text", form |-> form, age |-> days]
Datetime(aware, days) == [kind |-> "datetime", aware |-> aware, age |-> days]
Epoch(unit, days) == [kind |-> "epoch", unit |-> unit, days |-> days]
NoKeys == [kind |-> "empty_dict"]
DictWithoutDate == [kind |-> "dict_without_date"]
DictWith(value) == [kind |-> "dict", value |-> value]
OtherType == [kind |-> "other"]

\* datetime.now(timezone.utc), in days since 1970-01-01
NowDays == 20750

\* datetime.max (9999-12-31), in days since 1970-01-01
LastDay == 2932896

\* the number an epoch value holds, in units of 86400: seconds count days,
\* milliseconds count thousandths of days
EpochNumber(bd) == IF bd.unit = "ms" THEN bd.days * 1000 ELSE bd.days

\* `if ts > 1e12: ts = ts / 1000.0`, then datetime.fromtimestamp(ts): the
\* day the number is read as; 1e12 / 86400 lies between 11574074 and 11574075
EpochReadAs(bd) ==
    IF EpochNumber(bd) > 11574074 THEN EpochNumber(bd) \div 1000
    ELSE EpochNumber(bd)

\* `if not business_date`
Falsy(business_date) ==
    \/ business_date.kind \in {"none", "empty", "empty_dict"}
    \/ business_date.kind = "epoch" /\ business_date.days = 0

\* lines 44-50: a dict is replaced by the value under its timestamp key
Unwrapped(business_date) ==
    IF business_date.kind = "dict" THEN business_date.value ELSE business_date

\* AsDatetime that reads a value it cannot interpret as the present moment
AsDatetimeLenient(bd) ==
    CASE bd.kind \in {"date", "text", "datetime"} ->
            [ok |-> TRUE, age_days |-> bd.age]
      [] bd.kind = "epoch" ->
            [ok |-> TRUE,
             age_days |-> IF EpochReadAs(bd) > LastDay THEN 0
                          ELSE NowDays - EpochReadAs(bd)]
      [] OTHER -> [ok |-> TRUE, age_days |-> 0]

\* lines 52-96: the datetime the value is turned into, by its age in days
\* at the time of the call, or no datetime (return 0.0, or an exception
\* that the except clause turns into 0.0)
AsDatetime(bd) ==
    CASE bd.kind \in {"date", "text", "datetime"} ->
            [ok |-> TRUE, age_days |-> bd.age]
      [] bd.kind = "epoch" ->
            IF EpochReadAs(bd) > LastDay
            THEN [ok |-> FALSE, age_days |-> 0]
            ELSE [ok |-> TRUE, age_days |-> NowDays - EpochReadAs(bd)]
      [] OTHER -> [ok |-> FALSE, age_days |-> 0]

\* business_freshness(business_date)
business_freshness(business_date) ==
    IF Falsy(business_date) THEN Zero
    ELSE LET parsed == AsDatetime(Unwrapped(business_date))
             clamped == IF parsed.age_days > 0 THEN parsed.age_days ELSE 0
         IN  IF ~parsed.ok THEN Zero
             ELSE R(1, Pow2(clamped \div freshness_halflife_days))

\* any(sem > 0.0 for sem in sems)
SemanticAvailable(rows) ==
    \E i \in DOMAIN rows : RLt(Zero, Get(rows[i], "_semantic", Zero))

\* fuse_articles with the semantic weight dropped instead of moved to vector
ArticleWeightsDropped(rows) ==
    IF ~SemanticAvailable(rows)
    THEN [semantic |-> Zero, bm25 |-> w_bm25,
          vector |-> w_vector, business |-> w_business]
    ELSE [semantic |-> w_semantic, bm25 |-> w_bm25,
          vector |-> w_vector, business |-> w_business]

\* the adjusted weights of fuse_articles
ArticleWeights(rows) ==
    IF ~SemanticAvailable(rows)
    THEN [semantic |-> Zero, bm25 |-> w_bm25,
          vector |-> RAdd(w_vector, w_semantic), business |-> w_business]
    ELSE [semantic |-> w_semantic, bm25 |-> w_bm25,
          vector |-> w_vector, business |-> w_business]

\* the adjusted weights of fuse_authors
AuthorWeights(rows) ==
    IF ~SemanticAvailable(rows)
    THEN [semantic |-> Zero, bm25 |-> RAdd(aw_bm25, aw_semantic),
          vector |-> aw_vector, business |-> aw_business]
    ELSE [semantic |-> aw_semantic, bm25 |-> aw_bm25,
          vector |-> aw_vector, business |-> aw_business]

Column(rows, key) == [i \in DOMAIN rows |-> Get(rows[i], key, Zero)]

\* r["_final"] = w_sem*nsem + w_bm25*nbm + w_vector*nvec + w_business*b
WeightedSum(w, nsem, nbm, nvec, b) ==
    RAdd(RAdd(RMul(w.semantic, nsem), RMul(w.bm25, nbm)),
         RAdd(RMul(w.vector, nvec), RMul(w.business, b)))

WithFinal(r, f) == [key \in DOMAIN r \cup {"_final"} |->
                       IF key = "_final" THEN f ELSE r[key]]

\* a descending sort that puts a row before the rows of equal _final
RECURSIVE InsertDescUnstable(_, _)
InsertDescUnstable(sorted, r) ==
    IF sorted = <<>> THEN <<r>>
    ELSE IF RLe(Head(sorted)._final, r._final)
         THEN <<r>> \o sorted
         ELSE <<Head(sorted)>> \o InsertDescUnstable(Tail(sorted), r)

\* sorted(rows, key=lambda x: x["_final"], reverse=True): a stable sort,
\* equal keys keep their input order
RECURSIVE InsertDesc(_, _)
InsertDesc(sorted, r) ==
    IF sorted = <<>> THEN <<r>>
    ELSE IF RLt(Head(sorted)._final, r._final)
         THEN <<r>> \o sorted
         ELSE <<Head(sorted)>> \o InsertDesc(Tail(sorted), r)

RECURSIVE SortedByFinalDesc(_)
SortedByFinalDesc(rows) ==
    IF rows = <<>> THEN <<>>
    ELSE InsertDesc(SortedByFinalDesc(SubSeq(rows, 1, Len(rows) - 1)),
                    rows[Len(rows)])

\* the scoring loop of fuse_articles
ScoreArticles(rows) ==
    LET w == ArticleWeights(rows)
        bm_rng == Minmax(Column(rows, "_bm25"))
        sem_rng == Minmax(Column(rows, "_semantic"))
        vec_rng == Minmax(Column(rows, "_vector"))
    IN  [i \in DOMAIN rows |->
            WithFinal(rows[i],
                WeightedSum(w,
                    Norm(Get(rows[i], "_semantic", Zero), sem_rng),
                    Norm(Get(rows[i], "_bm25", Zero), bm_rng),
                    Norm(Get(rows[i], "_vector", Zero), vec_rng),
                    Get(rows[i], "_business", Zero)))]

\* fuse_articles(rows)
fuse_articles(rows) ==
    IF rows = <<>> THEN <<>> ELSE SortedByFinalDesc(ScoreArticles(rows))

\* the scoring loop of fuse_authors
ScoreAuthors(rows) ==
    LET w == AuthorWeights(rows)
        bm25s == Column(rows, "_bm25")
        bm_rng == Minmax(bm25s)
        sem_rng == Minmax(Column(rows, "_semantic"))
        vec_rng == Minmax(Column(rows, "_vector"))
        bm25_max == IF bm25s = <<>> THEN Zero ELSE RMaxSeq(bm25s)
        nbm(r) == IF ~SemanticAvailable(rows) /\ RLt(Zero, bm25_max)
                  THEN RDiv(Get(r, "_bm25", Zero), bm25_max)
                  ELSE Norm(Get(r, "_bm25", Zero), bm_rng)
    IN  [i \in DOMAIN rows |->
            WithFinal(rows[i],
                WeightedSum(w,
                    Norm(Get(rows[i], "_semantic", Zero), sem_rng),
                    nbm(rows[i]),
                    Norm(Get(rows[i], "_vector", Zero), vec_rng),
                    Get(rows[i], "_business", Zero)))]

\* fuse_authors(rows)
fuse_authors(rows) ==
    IF rows = <<>> THEN <<>> ELSE SortedByFinalDesc(ScoreAuthors(rows))


(***************************************************************************)
(* The search backend (Azure AI Search) behind SearchClient: an index of   *)
(* ranked hits.  A text hit carries "@search.score" (score) and, in a      *)
(* semantic query only, "@search.rerankerScore".                           *)
(***************************************************************************)
TextHit(id, score, reranker, date) ==
    [id |-> id, score |-> score, rerankerScore |-> reranker,
     business_date |-> date]
VecHit(id, score, date) == [id |-> id, score |-> score, business_date |-> date]

\* a vector hit whose id is missing (d.get("id") is falsy)
NoId == 0

\* text and vector rankings overlap in article 2; 1 is text-only, 3 is
\* vector-only; no reranker score is positive for article 1; one author
\* document has no full_name
IndexOverlap ==
    [text_hits |-> << TextHit(1, R(3, 1), Zero, DateAged(0)),
                      TextHit(2, R(1, 1), R(2, 1), DateAged(250)) >>,
     vec_hits  |-> << VecHit(2, R(1, 2), DateAged(250)),
                      VecHit(3, R(3, 4), DateAged(0)) >>,
     authors   |-> << [id |-> 1, full_name |-> <<"J", "o", "s", "é">>],
                      [id |-> 2, full_name |-> <<"J", "o", " ", "L", "e", "e">>],
                      [id |-> 3],
                      [id |-> 4, full_name |-> <<"A", "n", "n">>] >>]

\* a ranking with ties, a hit without id, a hit without date, and no
\* positive reranker score at all; two authors match "jose" equally well
IndexTies ==
    [text_hits |-> << TextHit(1, R(2, 1), Zero, NoDate),
                      TextHit(2, R(2, 1), Zero, NoDate),
                      TextHit(3, R(1, 1), Zero, GarbageDate) >>,
     vec_hits  |-> << VecHit(NoId, R(1, 1), NoDate),
                      VecHit(3, R(1, 2), DateAged(500)),
                      VecHit(4, R(1, 2), DateAged(0 - 250)) >>,
     authors   |-> << [id |-> 5, full_name |-> <<"J", "o", "s", "e", " ", "L", "e", "e">>],
                      [id |-> 1, full_name |-> <<"J", "o", "s", "é">>],
                      [id |-> 6, full_name |-> <<"L", "e", "e", "-", "A", "n", "n">>] >>]

Indexes == {IndexOverlap, IndexTies}

Min(a, b) == IF a < b THEN a ELSE b

\* Python slice xs[start:end]
Slice(xs, start, end) ==
    SubSeq(xs, Min(start, Len(xs)) + 1, Min(end, Len(xs)))

\* the first `top` hits of a ranking
Top(hits, top) == SubSeq(hits, 1, Min(top, Len(hits)))

\* the documents a text query returns: the reranker score is present only
\* for query_type = "semantic"
TextResults(hits, query_type, top) ==
    LET page == Top(hits, top)
    IN  [i \in DOMAIN page |->
            IF query_type = "semantic" THEN page[i]
            ELSE [id |-> page[i].id, score |-> page[i].score,
                  business_date |-> page[i].business_date]]

(***************************************************************************)
(* Strings: a Python str is the sequence of its characters, a character a  *)
(* one-letter string; "'" stands for U+0301, the combining acute accent.   *)
(***************************************************************************)
\* str.lower() on the characters the model's texts use
LowerChar(ch) ==
    CASE ch = "A" -> "a" [] ch = "E" -> "e" [] ch = "J" -> "j"
      [] ch = "L" -> "l" [] ch = "N" -> "n" [] ch = "O" -> "o"
      [] ch = "S" -> "s" [] ch = "É" -> "é"
      [] OTHER -> ch

\* the canonical decomposition of one character
NFD(ch) == IF ch = "é" THEN <<"e", "'">> ELSE <<ch>>

\* unicodedata.category(ch) == 'Mn'
IsMn(ch) == ch = "'"

\* the regular expression classes \w and \s
IsWordChar(ch) == ch \in {"a", "e", "j", "l", "n", "o", "s", "é", "_"}
IsSpace(ch) == ch = " "

\* unicodedata.normalize('NFD', text)
RECURSIVE NFDText(_)
NFDText(text) ==
    IF text = <<>> THEN <<>> ELSE NFD(Head(text)) \o NFDText(Tail(text))

\* re.sub(r'\s+', ' ', text): each run of whitespace becomes one space
RECURSIVE CollapseSpaces(_)
CollapseSpaces(text) ==
    IF text = <<>> THEN <<>>
    ELSE IF IsSpace(Head(text))
         THEN IF Len(text) > 1 /\ IsSpace(text[2])
              THEN CollapseSpaces(Tail(text))
              ELSE <<" ">> \o CollapseSpaces(Tail(text))
         ELSE <<Head(text)>> \o CollapseSpaces(Tail(text))

\* str.strip()
RECURSIVE LStrip(_)
LStrip(text) ==
    IF text # <<>> /\ IsSpace(Head(text)) THEN LStrip(Tail(text)) ELSE text

RECURSIVE RStrip(_)
RStrip(text) ==
    IF text # <<>> /\ IsSpace(text[Len(text)])
    THEN RStrip(SubSeq(text, 1, Len(text) - 1))
    ELSE text

Strip(text) == RStrip(LStrip(text))

\* BackendSearchService._normalize_text(text)
normalize_text(text) ==
    IF text = <<>> THEN <<>>
    ELSE LET lowered == [i \in DOMAIN text |-> LowerChar(text[i])]
             normalized == NFDText(lowered)
             without_accents == SelectSeq(normalized, LAMBDA ch : ~IsMn(ch))
             cleaned == [i \in DOMAIN without_accents |->
                            IF IsWordChar(without_accents[i])
                               \/ IsSpace(without_accents[i])
                            THEN without_accents[i] ELSE " "]
         IN  Strip(CollapseSpaces(cleaned))

\* str.split(): the maximal runs of non-whitespace characters
RECURSIVE SplitFrom(_, _)
SplitFrom(text, word) ==
    IF text = <<>> THEN (IF word = <<>> THEN <<>> ELSE <<word>>)
    ELSE IF IsSpace(Head(text))
         THEN (IF word = <<>> THEN <<>> ELSE <<word>>) \o SplitFrom(Tail(text), <<>>)
         ELSE SplitFrom(Tail(text), Append(word, Head(text)))

Split(text) == SplitFrom(text, <<>>)

\* Python's `sub in text` on strings
IsSubstring(sub, text) ==
    \E i \in 0 .. (Len(text) - Len(sub)) : SubSeq(text, i + 1, i + Len(sub)) = sub

(***************************************************************************)
(* difflib.SequenceMatcher(None, a, b).ratio()                             *)
(***************************************************************************)
\* length of the common run of a from i and b from j, within a[..ahi], b[..bhi]
RECURSIVE CommonRun(_, _, _, _, _, _)
CommonRun(a, i, ahi, b, j, bhi) ==
    IF i > ahi \/ j > bhi THEN 0
    ELSE IF a[i] # b[j] THEN 0
    ELSE 1 + CommonRun(a, i + 1, ahi, b, j + 1, bhi)

MaxOf(S) == CHOOSE x \in S : \A y \in S : y <= x
MinOf(S) == CHOOSE x \in S : \A y \in S : x <= y

\* find_longest_match(alo, ahi, blo, bhi): the longest block, the earliest
\* in a, and of those the earliest in b; <<i, j, size>>, indexes from 1,
\* bounds inclusive
FindLongestMatch(a, alo, ahi, b, blo, bhi) ==
    IF alo > ahi \/ blo > bhi THEN <<alo, blo, 0>>
    ELSE LET run == [i \in alo .. ahi, j \in blo .. bhi |->
                        CommonRun(a, i, ahi, b, j, bhi)]
             size == MaxOf({run[i, j] : i \in alo .. ahi, j \in blo .. bhi})
         IN  IF size = 0 THEN <<alo, blo, 0>>
             ELSE LET besti == MinOf({i \in alo .. ahi :
                                 \E j \in blo .. bhi : run[i, j] = size})
                      bestj == MinOf({j \in blo .. bhi : run[besti, j] = size})
                  IN  <<besti, bestj, size>>

\* the total size of get_matching_blocks()
RECURSIVE MatchingSize(_, _, _, _, _, _)
MatchingSize(a, alo, ahi, b, blo, bhi) ==
    LET m == FindLongestMatch(a, alo, ahi, b, blo, bhi)
    IN  IF m[3] = 0 THEN 0
        ELSE m[3]
             + MatchingSize(a, alo, m[1] - 1, b, blo, m[2] - 1)
             + MatchingSize(a, m[1] + m[3], ahi, b, m[2] + m[3], bhi)

\* SequenceMatcher(None, a, b).ratio()
Ratio(a, b) ==
    IF Len(a) + Len(b) = 0 THEN One
    ELSE R(2 * MatchingSize(a, 1, Len(a), b, 1, Len(b)), Len(a) + Len(b))

(***************************************************************************)
(* BackendSearchService._fuzzy_match_authors                               *)
(***************************************************************************)
RMax(a, b) == IF RLt(a, b) THEN b ELSE a
RMin(a, b) == IF RLt(b, a) THEN b ELSE a

InSeq(x, xs) == \E i \in DOMAIN xs : xs[i] = x

\* the inner `for name_word in name_words` of strategy 3: the credit of the
\* first name word that satisfies one of the three tests, 0 when none does
RECURSIVE PartialCredit(_, _)
PartialCredit(query_word, name_words) ==
    IF name_words = <<>> THEN Zero
    ELSE LET name_word == Head(name_words)
             word_sim == Ratio(query_word, name_word)
         IN  IF Len(query_word) >= 3 /\ IsSubstring(query_word, name_word)
             THEN R(7, 10)
             ELSE IF Len(name_word) >= 3 /\ IsSubstring(name_word, query_word)
             THEN R(7, 10)
             ELSE IF RLe(R(8, 10), word_sim) THEN word_sim
             ELSE PartialCredit(query_word, Tail(name_words))

\* matched_words after the loop over query_words
RECURSIVE MatchedWords(_, _)
MatchedWords(query_words, name_words) ==
    IF query_words = <<>> THEN Zero
    ELSE RAdd(IF InSeq(Head(query_words), name_words) THEN One
              ELSE PartialCredit(Head(query_words), name_words),
              MatchedWords(Tail(query_words), name_words))

\* strategy 3
WordMatchScore(query_words, name_words) ==
    IF query_words # <<>> /\ name_words # <<>>
    THEN RDiv(MatchedWords(query_words, name_words), R(Len(query_words), 1))
    ELSE Zero

\* strategy 4 divides by len(name_normalized)
SubstringRaises(query_normalized, name_normalized) ==
    IsSubstring(query_normalized, name_normalized) /\ Len(name_normalized) = 0

\* strategy 4
SubstringScore(query_normalized, name_normalized) ==
    IF IsSubstring(query_normalized, name_normalized)
    THEN RMul(R(9, 10), R(Len(query_normalized), Len(name_normalized)))
    ELSE IF IsSubstring(name_normalized, query_normalized)
    THEN RMul(R(8, 10), R(Len(name_normalized), Len(query_normalized)))
    ELSE Zero

\* strategy 5
InitialsScore(query_words, name_words) ==
    IF Len(query_words) <= 3 /\ Len(name_words) >= Len(query_words)
       /\ \A i \in DOMAIN query_words : name_words[i][1] = query_words[i][1]
    THEN R(7, 10)
    ELSE Zero

\* the scores of the five strategies for one author
Strategies(query_normalized, name_normalized) ==
    LET query_words == Split(query_normalized)
        name_words == Split(name_normalized)
    IN  [exact_match_score |->
             IF query_normalized = name_normalized THEN One ELSE Zero,
         full_similarity |-> Ratio(query_normalized, name_normalized),
         word_match_score |-> WordMatchScore(query_words, name_words),
         substring_score |-> SubstringScore(query_normalized, name_normalized),
         initials_score |-> InitialsScore(query_words, name_words)]

\* final_score = max(...) of the weighted strategy scores
CombinedScore(strategies) ==
    RMax(RMul(strategies.exact_match_score, One),
    RMax(RMul(strategies.full_similarity, R(9, 10)),
    RMax(RMul(strategies.word_match_score, R(95, 100)),
    RMax(RMul(strategies.substring_score, R(85, 100)),
         RMul(strategies.initials_score, R(7, 10))))))

\* the bonus for shorter names
WithBonus(combined, query_normalized, name_normalized) ==
    IF RLt(R(1, 2), combined)
       /\ Len(name_normalized) <= Len(query_normalized) + 5
    THEN RMin(One, RMul(combined, R(11, 10)))
    ELSE combined

\* final_score of one author whose name is name_normalized
FinalScore(query_normalized, name_normalized) ==
    WithBonus(CombinedScore(Strategies(query_normalized, name_normalized)),
              query_normalized, name_normalized)

\* the authors the loop scores: those with a non-empty full_name
Named(all_authors) ==
    SelectSeq(all_authors, LAMBDA author : Get(author, "full_name", <<>>) # <<>>)

\* InsertMatch for a sort that keeps the matches in the order of the list
InsertMatchUnsorted(sorted, m) == Append(sorted, m)

\* matches.sort(key=lambda x: x[1], reverse=True): stable, descending
RECURSIVE InsertMatch(_, _)
InsertMatch(sorted, m) ==
    IF sorted = <<>> THEN <<m>>
    ELSE IF RLt(Head(sorted).score, m.score) THEN <<m>> \o sorted
    ELSE <<Head(sorted)>> \o InsertMatch(Tail(sorted), m)

RECURSIVE SortMatches(_)
SortMatches(matches) ==
    IF matches = <<>> THEN <<>>
    ELSE InsertMatch(SortMatches(SubSeq(matches, 1, Len(matches) - 1)),
                     matches[Len(matches)])

\* _fuzzy_match_authors(query, all_authors, k): the (author, score) pairs, or
\* the ZeroDivisionError of strategy 4
fuzzy_match_authors(query, all_authors, k) ==
    LET query_normalized == normalize_text(query)
        named == Named(all_authors)
        names == [i \in DOMAIN named |-> normalize_text(named[i].full_name)]
    IN  IF \E i \in DOMAIN names : SubstringRaises(query_normalized, names[i])
        THEN [raised |-> TRUE, matches |-> <<>>]
        ELSE LET scored == [i \in DOMAIN named |->
                               [author |-> named[i],
                                score |-> FinalScore(query_normalized, names[i])]]
                 matches == SelectSeq(scored, LAMBDA m : RLt(R(5, 100), m.score))
             IN  [raised |-> FALSE,
                  matches |-> Slice(SortMatches(matches), 0, k)]

\* the loop of _fuzzy_match_authors seen from inside: for each author it
\* scores, the strategy scores, final_score before the bonus and after it
ScoredAuthors(query, all_authors) ==
    LET query_normalized == normalize_text(query)
        named == Named(all_authors)
    IN  [i \in DOMAIN named |->
            LET name_normalized == normalize_text(named[i].full_name)
                strategies == Strategies(query_normalized, name_normalized)
            IN  [author |-> named[i],
                 query_normalized |-> query_normalized,
                 name_normalized |-> name_normalized,
                 strategies |-> strategies,
                 combined |-> CombinedScore(strategies),
                 score |-> FinalScore(query_normalized, name_normalized)]]

(***************************************************************************)
(* Query planner (LLMService.plan_query) as seen by its callers            *)
(***************************************************************************)
EmptyDict == [key \in {} |-> key]

\* the query texts callers send, and the text the planner rewrites them to
QueryShort == <<"J", "o", "s", "É">>
QueryLong == <<"a", " ", "e", " ", "j", " ", "l", " ", "n">>
PlannedQuery == <<"l", "e", "e">>

\* the plan the callers substitute when the planner raises or is absent
FallbackPlan(query) ==
    [normalized_query |-> query, search_parameters |-> EmptyDict]

\* what a call of plan_query can do: raise, or return the dict parsed from
\* the LLM's JSON answer, which has the plan's keys or lacks some
PlanQueryOutcomes ==
    { [raised |-> TRUE, plan |-> EmptyDict],
      [raised |-> FALSE,
       plan |-> [normalized_query |-> PlannedQuery,
                 search_parameters |-> [filter |-> "status eq 'published'"]]],
      [raised |-> FALSE, plan |-> [search_parameters |-> EmptyDict]],
      [raised |-> FALSE, plan |-> [normalized_query |-> PlannedQuery]] }

(***************************************************************************)
(* BackendSearchService                                                    *)
(***************************************************************************)
\* ThreadPoolExecutor(max_workers=4)
max_workers == 4

\* int(search_k * 1.1), int(search_k * 1.3), int(search_k * 1.2)
TopSemantic(search_k) == Floor(RMul(R(search_k, 1), R(11, 10)))
TopSimple(search_k) == Floor(RMul(R(search_k, 1), R(13, 10)))
TopVector(search_k) == Floor(RMul(R(search_k, 1), R(12, 10)))

Max(a, b) == IF a > b THEN a ELSE b

\* search_k sized to the requested page: total_needed = offset + page_size
ArticlesSearchKNeeded(k, page_index, page_size) ==
    IF page_index # NoPage /\ page_size # NoPage
    THEN page_index * page_size + page_size
    ELSE k

\* search_k of _search_articles_planned
ArticlesSearchK(k, page_index, page_size) ==
    IF page_index # NoPage /\ page_size # NoPage
    THEN Max(k * 4, 200)
    ELSE k

\* search_k of _search_authors_planned
AuthorsSearchK(k, page_index, page_size) ==
    IF page_index # NoPage /\ page_size # NoPage
    THEN Max(k * 4, 100)
    ELSE k

\* offset of both planned searches
Offset(page_index, page_size) ==
    IF page_index # NoPage /\ page_size # NoPage
    THEN page_index * page_size
    ELSE 0

\* rows_local of run_text_search
TextRows(docs) ==
    [i \in DOMAIN docs |->
        [id |-> docs[i].id,
         doc |-> docs[i],
         _bm25 |-> docs[i].score,
         _semantic |-> Get(docs[i], "rerankerScore", Zero),
         _vector |-> Zero,
         _business |-> business_freshness(Get(docs[i], "business_date", NoDate))]]

\* A Python dict keyed by id, as the sequence of its values in insertion
\* order: d[row.id] = row
DictPut(d, row) ==
    IF \E i \in DOMAIN d : d[i].id = row.id
    THEN [i \in DOMAIN d |-> IF d[i].id = row.id THEN row ELSE d[i]]
    ELSE Append(d, row)

DictHas(d, id) == \E i \in DOMAIN d : d[i].id = id

\* id_to_row = {r["id"]: r for r in rows}
RECURSIVE IdToRow(_)
IdToRow(rows) ==
    IF rows = <<>> THEN <<>>
    ELSE DictPut(IdToRow(SubSeq(rows, 1, Len(rows) - 1)), rows[Len(rows)])

\* the vector loop without the `if article_id in id_to_row` test
MergeVectorHitAppend(id_to_row, d) ==
    LET article_id == Get(d, "id", NoId)
        score == Get(d, "score", Zero)
    IN  IF article_id = NoId THEN id_to_row
        ELSE Append(id_to_row,
                    [id |-> article_id, doc |-> d, _bm25 |-> Zero,
                     _semantic |-> Zero, _vector |-> score,
                     _business |-> Zero])

\* one iteration of `for d in vec_res` over id_to_row
MergeVectorHit(id_to_row, d) ==
    LET article_id == Get(d, "id", NoId)
        score == Get(d, "score", Zero)
    IN  IF article_id = NoId THEN id_to_row
        ELSE IF DictHas(id_to_row, article_id)
        THEN [i \in DOMAIN id_to_row |->
                 IF id_to_row[i].id = article_id
                 THEN [id_to_row[i] EXCEPT !._vector = score]
                 ELSE id_to_row[i]]
        ELSE Append(id_to_row,
                    [id |-> article_id, doc |-> d, _bm25 |-> Zero,
                     _semantic |-> Zero, _vector |-> score,
                     _business |-> Zero])

\* the whole merge: id_to_row from the text rows, then the vector loop
RECURSIVE MergeVector(_, _)
MergeVector(id_to_row, vec_res) ==
    IF vec_res = <<>> THEN id_to_row
    ELSE MergeVector(MergeVectorHit(id_to_row, Head(vec_res)), Tail(vec_res))

MergeCandidates(rows, vec_res) == MergeVector(IdToRow(rows), vec_res)

\* _apply_score_threshold(results) under the SETTINGS in force
ApplyScoreThreshold(results, cfg) ==
    IF ~cfg.enable_score_filtering THEN results
    ELSE IF RLe(cfg.score_threshold, Zero) THEN results
    ELSE SelectSeq(results,
                   LAMBDA r : RLe(cfg.score_threshold, Get(r, "_final", Zero)))

\* math.ceil(a / b) for a >= 0, b > 0
CeilDiv(a, b) == (a + b - 1) \div b

NoPagination == [present |-> FALSE]

\* PlannedResponse that reports a next page whenever the page is full
PlannedResponseFullPage(all_fused_results, search_type, normalized_query, k, page_index, page_size) ==
    IF page_index # NoPage /\ page_size # NoPage
    THEN LET total_results == Len(all_fused_results)
             start_idx == Offset(page_index, page_size)
             end_idx == start_idx + page_size
         IN  [status |-> "ok",
              results |-> Slice(all_fused_results, start_idx, end_idx),
              normalized_query |-> normalized_query,
              pagination |->
                  [present |-> TRUE,
                   page_index |-> page_index,
                   page_size |-> page_size,
                   total_results |-> total_results,
                   total_pages |-> IF total_results > 0
                                   THEN CeilDiv(total_results, page_size)
                                   ELSE 1,
                   has_next |-> end_idx <= total_results,
                   has_previous |-> page_index > 0],
              search_type |-> search_type]
    ELSE [status |-> "ok",
          results |-> Slice(all_fused_results, 0, k),
          normalized_query |-> normalized_query,
          pagination |-> NoPagination,
          search_type |-> search_type]

\* the dict returned by both planned searches
PlannedResponse(all_fused_results, search_type, normalized_query, k, page_index, page_size) ==
    IF page_index # NoPage /\ page_size # NoPage
    THEN LET total_results == Len(all_fused_results)
             start_idx == Offset(page_index, page_size)
             end_idx == start_idx + page_size
         IN  [status |-> "ok",
              results |-> Slice(all_fused_results, start_idx, end_idx),
              normalized_query |-> normalized_query,
              pagination |->
                  [present |-> TRUE,
                   page_index |-> page_index,
                   page_size |-> page_size,
                   total_results |-> total_results,
                   total_pages |-> IF total_results > 0
                                   THEN CeilDiv(total_results, page_size)
                                   ELSE 1,
                   has_next |-> end_idx < total_results,
                   has_previous |-> page_index > 0],
              search_type |-> search_type]
    ELSE [status |-> "ok",
          results |-> Slice(all_fused_results, 0, k),
          normalized_query |-> normalized_query,
          pagination |-> NoPagination,
          search_type |-> search_type]

\* a call that ends by raising
Raised(error) == [status |-> "error", error |-> error]

\* ArticlesResponse that cuts the page before it applies the threshold
ArticlesResponseFilterLast(candidates, cfg, normalized_query, k, page_index, page_size) ==
    [PlannedResponse(fuse_articles(candidates), "articles", normalized_query,
                     k, page_index, page_size)
        EXCEPT !.results = ApplyScoreThreshold(@, cfg)]

\* lines 613-669 of _search_articles_planned: fuse, filter, paginate
ArticlesResponse(candidates, cfg, normalized_query, k, page_index, page_size) ==
    PlannedResponse(ApplyScoreThreshold(fuse_articles(candidates), cfg),
                    "articles", normalized_query, k, page_index, page_size)

(***************************************************************************)
(* State                                                                   *)
(***************************************************************************)
VARIABLES
    semantic_enabled,   \* self.semantic_enabled
    llm_service,        \* self.llm_service: "LLMService" or None
    backend,            \* the search service behind self.articles / self.authors
    settings,           \* SETTINGS.enable_score_filtering / score_threshold
    request,            \* k, page_size and the query texts the callers pass
    calls,              \* the calls of the public operations on the instance
    fusion,             \* a direct call of fuse_articles / fuse_authors
    batch,              \* a call of _batch_get_documents
    direct              \* a direct call of a scoring or matching function

vars == <<semantic_enabled, llm_service, backend, settings, request, calls,
          fusion, batch, direct>>

CallIds == 1 .. NumCalls

PageIndexes == {NoPage} \cup (0 .. MaxPage)

NoTask == [st |-> "none", sem_read |-> FALSE, rejected |-> FALSE,
           requests |-> <<>>, rows |-> <<>>, error |-> None]

NoResponse == [status |-> "none"]

NoFusion == [fn |-> None, rows |-> <<>>, weights |-> EmptyDict, out |-> <<>>]

NoBatch == [pc |-> "none", document_ids |-> <<>>, app_id |-> None,
            requests |-> <<>>, batch_raised |-> FALSE, todo |-> <<>>,
            doc_dict |-> <<>>]

NoDirect == [fn |-> None]

IdleCall ==
    [pc |-> "idle", op |-> None, query |-> <<>>, forwarded |-> <<>>,
     page_index |-> NoPage, page_size |-> NoPage,
     articles_plan |-> None, authors_plan |-> None, sem_at_start |-> FALSE,
     normalized_query |-> <<>>, search_params |-> EmptyDict, search_k |-> 0,
     text |-> NoTask, vector |-> NoTask, completed |-> <<>>,
     merged |-> FALSE, candidates |-> <<>>, author_rows |-> <<>>,
     authors_fetch |-> None, article |-> NoResponse, response |-> NoResponse]

\* pool tasks that hold a worker thread
Running == {c \in CallIds : calls[c].text.st = "fallback"}

WorkerFree == Cardinality(Running) < max_workers

\* The deployments: the capability the backend has now (semantic), whether
\* its SDK raises a rejected query when search() is called or only when the
\* result is iterated (lazy), and the flag __init__ computed with
\* _test_semantic_search when the instance was built.
Deployments ==
    { [flag |-> TRUE,  semantic |-> TRUE,  lazy |-> TRUE],
      [flag |-> TRUE,  semantic |-> FALSE, lazy |-> FALSE],
      [flag |-> TRUE,  semantic |-> FALSE, lazy |-> TRUE],
      [flag |-> FALSE, semantic |-> TRUE,  lazy |-> TRUE],
      [flag |-> FALSE, semantic |-> FALSE, lazy |-> TRUE] }

ScoreSettings ==
    { [enable_score_filtering |-> FALSE, score_threshold |-> Zero],
      [enable_score_filtering |-> TRUE, score_threshold |-> R(1, 2)] }

InitDeployment ==
    \E d \in Deployments, ix \in Indexes :
        /\ semantic_enabled = d.flag
        /\ backend = [semantic |-> d.semantic, lazy |-> d.lazy, index |-> ix]

\* Concurrent callers of search_articles and search_authors on an instance
\* built without an LLM service
Init ==
    /\ InitDeployment
    /\ llm_service = None
    /\ settings \in ScoreSettings
    /\ request \in {[k |-> n, page_size |-> n, queries |-> {QueryShort}] :
                       n \in 1 .. MaxK}
    /\ calls = [c \in CallIds |-> IdleCall]
    /\ fusion = NoFusion
    /\ batch = NoBatch
    /\ direct = NoDirect

\* One caller at a time on an instance built with an LLM service
InitApi ==
    /\ InitDeployment
    /\ llm_service = "LLMService"
    /\ settings \in ScoreSettings
    /\ request \in {[k |-> k, page_size |-> n, queries |-> {QueryShort, QueryLong}] :
                       k \in 1 .. MaxK, n \in 1 .. MaxPageSize}
    /\ calls = [c \in CallIds |->
                   IF c = 1 THEN IdleCall ELSE [IdleCall EXCEPT !.pc = "unused"]]
    /\ fusion = NoFusion
    /\ batch = NoBatch
    /\ direct = NoDirect

\* callers are interchangeable: they start in the order of their ids
MayStart(c) ==
    /\ calls[c].pc = "idle"
    /\ \A b \in CallIds : b < c => calls[b].pc # "idle"

(***************************************************************************)
(* Planning in search_articles / search_authors                            *)
(***************************************************************************)
\* the plan search_articles / search_authors continue with
PlanFor(query, outcome) ==
    IF llm_service = None THEN FallbackPlan(query)
    ELSE IF outcome.raised THEN FallbackPlan(query)
    ELSE outcome.plan

\* plan_query is called only on an instance that has an LLM service
NotCalled == [raised |-> FALSE, plan |-> EmptyDict]

PlanCalls == IF llm_service = None THEN {NotCalled} ELSE PlanQueryOutcomes

PlanOutcomeTag(outcome) ==
    IF llm_service = None THEN "no_llm"
    ELSE IF outcome.raised THEN "raised"
    ELSE IF "normalized_query" \notin DOMAIN outcome.plan THEN "no_normalized_query"
    ELSE IF "search_parameters" \notin DOMAIN outcome.plan THEN "no_search_parameters"
    ELSE "valid"

\* the dict search() substitutes for a search that raised
Placeholder(normalized_query, search_type) ==
    [status |-> "ok", results |-> <<>>, normalized_query |-> normalized_query,
     pagination |-> NoPagination, search_type |-> search_type]

\* the try/except of search() around each of its two searches
ResultOrPlaceholder(result, normalized_query, search_type) ==
    IF result.status = "error"
    THEN Placeholder(normalized_query, search_type)
    ELSE result

\* search() after search_authors returned or raised: the combined result
SearchReturned(call, run) ==
    [call EXCEPT
        !.pc = "done",
        !.author_rows = run.rows,
        !.response = [status |-> "ok",
                      article |-> call.article,
                      author |-> ResultOrPlaceholder(run.response, call.forwarded,
                                                     "authors")]]

\* search_articles returns or raises: to its caller, or into search()
Finish(call, response) ==
    IF call.op = "search"
    THEN [call EXCEPT !.pc = "search_authors",
                      !.article = ResultOrPlaceholder(response, call.forwarded,
                                                      "articles")]
    ELSE [call EXCEPT !.pc = "done", !.response = response]

(***************************************************************************)
(* search_authors -> _search_authors_planned                               *)
(***************************************************************************)
\* _get_all_authors: the documents of the authors index, [] when the
\* backend fails
get_all_authors(fetch) ==
    IF fetch = "ok" THEN backend.index.authors ELSE <<>>

\* AuthorRows that also files the fuzzy score as the vector score
AuthorRowsWithVector(fuzzy_matches) ==
    [i \in DOMAIN fuzzy_matches |->
        [id |-> fuzzy_matches[i].author.id,
         doc |-> fuzzy_matches[i].author,
         _bm25 |-> fuzzy_matches[i].score,
         _semantic |-> Zero, _vector |-> fuzzy_matches[i].score,
         _business |-> Zero]]

\* rows of _search_authors_planned
AuthorRows(fuzzy_matches) ==
    [i \in DOMAIN fuzzy_matches |->
        [id |-> fuzzy_matches[i].author.id,
         doc |-> fuzzy_matches[i].author,
         _bm25 |-> fuzzy_matches[i].score,
         _semantic |-> Zero, _vector |-> Zero, _business |-> Zero]]

\* lines 328-407 of _search_authors_planned: rows, fuse, filter, re-sort,
\* paginate
AuthorsResponse(fuzzy, cfg, normalized_query, k, page_index, page_size) ==
    IF fuzzy.raised THEN Raised("ZeroDivisionError")
    ELSE PlannedResponse(
             SortedByFinalDesc(
                 ApplyScoreThreshold(fuse_authors(AuthorRows(fuzzy.matches)), cfg)),
             "authors", normalized_query, k, page_index, page_size)

\* lines 328-354: the rows handed to fuse_authors
AuthorsFused(fuzzy) ==
    IF fuzzy.raised THEN <<>> ELSE AuthorRows(fuzzy.matches)

\* a run of _search_authors_planned on the result of the fuzzy matcher: the
\* rows it hands to fuse_authors and what it returns or raises
AuthorsRun(fuzzy, cfg, normalized_query, k, page_index, page_size) ==
    [rows |-> AuthorsFused(fuzzy),
     response |-> AuthorsResponse(fuzzy, cfg, normalized_query, k, page_index,
                                  page_size)]

\* _search_authors_planned(original_query, plan, k, page_index, page_size)
search_authors_planned(plan, fetch, k, page_index, page_size) ==
    IF "normalized_query" \notin DOMAIN plan
    THEN [rows |-> <<>>, response |-> Raised("KeyError")]
    ELSE AuthorsRun(
             fuzzy_match_authors(plan.normalized_query, get_all_authors(fetch),
                                 AuthorsSearchK(k, page_index, page_size)),
             settings, plan.normalized_query, k, page_index, page_size)

\* search_authors(query, k, page_index, page_size)
search_authors(query, outcome, fetch, k, page_index, page_size) ==
    search_authors_planned(PlanFor(query, outcome), fetch, k, page_index,
                           page_size)

\* whether the call reached _get_all_authors, and how that went
AuthorsFetch(query, outcome, fetch) ==
    IF "normalized_query" \in DOMAIN PlanFor(query, outcome) THEN fetch ELSE None

\* search_authors returns or raises to its caller
AuthorsReturned(call, run) ==
    [call EXCEPT !.pc = "done", !.author_rows = run.rows,
                 !.response = run.response]

\* a caller runs search_authors
StartAuthors(c) ==
    /\ MayStart(c)
    /\ \E query \in request.queries, page_index \in PageIndexes,
          outcome \in PlanCalls, fetch \in {"ok", "failed"} :
         LET page_size == IF page_index = NoPage THEN NoPage ELSE request.page_size
         IN  calls' = [calls EXCEPT ![c] = AuthorsReturned(
                 [calls[c] EXCEPT
                     !.op = "search_authors",
                     !.query = query,
                     !.forwarded = query,
                     !.page_index = page_index,
                     !.page_size = page_size,
                     !.authors_plan = PlanOutcomeTag(outcome),
                     !.search_k = IF AuthorsFetch(query, outcome, fetch) = None
                                  THEN 0
                                  ELSE AuthorsSearchK(request.k, page_index, page_size),
                     !.authors_fetch = AuthorsFetch(query, outcome, fetch)],
                 search_authors(query, outcome, fetch, request.k, page_index,
                                page_size))]
    /\ UNCHANGED <<semantic_enabled, llm_service, backend, settings, request, fusion, batch, direct>>

(***************************************************************************)
(* search_articles -> _search_articles_planned                             *)
(***************************************************************************)
\* search_articles(query, k, page_index, page_size) up to the submission of
\* the two pool tasks
BeginArticles(call, query, page_index, page_size, outcome) ==
    LET plan == PlanFor(query, outcome)
        started == [call EXCEPT !.page_index = page_index,
                                !.page_size = page_size,
                                !.articles_plan = PlanOutcomeTag(outcome),
                                !.sem_at_start = semantic_enabled]
    IN  IF "normalized_query" \notin DOMAIN plan
           \/ "search_parameters" \notin DOMAIN plan
        THEN \* plan["normalized_query"] / plan["search_parameters"]
             Finish(started, Raised("KeyError"))
        ELSE [started EXCEPT
                 !.pc = "await_text",
                 !.normalized_query = plan.normalized_query,
                 !.search_params = plan.search_parameters,
                 !.search_k = ArticlesSearchK(request.k, page_index, page_size),
                 !.text.st = "queued",
                 !.vector.st = "queued"]

\* a caller runs search_articles
StartArticles(c) ==
    /\ MayStart(c)
    /\ \E query \in request.queries, page_index \in PageIndexes,
          outcome \in PlanCalls :
         LET page_size == IF page_index = NoPage THEN NoPage ELSE request.page_size
         IN  calls' = [calls EXCEPT ![c] =
                 BeginArticles([calls[c] EXCEPT !.op = "search_articles",
                                                !.query = query,
                                                !.forwarded = query],
                               query, page_index, page_size, outcome)]
    /\ UNCHANGED <<semantic_enabled, llm_service, backend, settings, request, fusion, batch, direct>>

TextRequest(c, query_type, top) ==
    [query_type |-> query_type, top |-> top,
     search_text |-> calls[c].normalized_query,
     filter |-> Get(calls[c].search_params, "filter", "")]

TextDone(call, requests, docs) ==
    [call EXCEPT !.text.st = "ok", !.text.requests = requests,
                 !.text.rows = TextRows(docs),
                 !.completed = Append(@, "text")]

TextFailed(call, requests, error) ==
    [call EXCEPT !.text.st = "failed", !.text.requests = requests,
                 !.text.error = error,
                 !.completed = Append(@, "text")]

\* run_text_search without the `if self.semantic_enabled` test: the
\* semantic branch whatever the flag says
RunTextSearchIgnoringFlag(c) ==
    /\ calls[c].text.st = "queued"
    /\ WorkerFree
    /\ LET call == [calls[c] EXCEPT !.text.sem_read = semantic_enabled]
           hits == backend.index.text_hits
           req == TextRequest(c, "semantic", TopSemantic(call.search_k))
       IN  \/ /\ backend.semantic
              /\ calls' = [calls EXCEPT ![c] =
                     TextDone(call, <<req>>, TextResults(hits, "semantic", req.top))]
           \/ /\ ~backend.semantic
              /\ ~backend.lazy
              /\ calls' = [calls EXCEPT ![c] =
                     [call EXCEPT !.text.st = "fallback",
                                  !.text.rejected = TRUE,
                                  !.text.requests = <<req>>]]
           \/ /\ ~backend.semantic
              /\ backend.lazy
              /\ calls' = [calls EXCEPT ![c] =
                     TextFailed([call EXCEPT !.text.rejected = TRUE],
                                <<req>>, "SemanticQueriesNotAvailable")]
           \/ calls' = [calls EXCEPT ![c] =
                     TextFailed(call, <<req>>, "ServiceUnavailable")]
    /\ UNCHANGED <<semantic_enabled, llm_service, backend, settings, request, fusion, batch, direct>>

\* run_text_search up to its first backend answer: the semantic branch
\* (lines 434-463) or the BM25-only branch (lines 498-525), then the row loop
RunTextSearch(c) ==
    /\ calls[c].text.st = "queued"
    /\ WorkerFree
    /\ LET call == [calls[c] EXCEPT !.text.sem_read = semantic_enabled]
           hits == backend.index.text_hits
       IN  IF semantic_enabled
           THEN LET req == TextRequest(c, "semantic", TopSemantic(call.search_k))
                IN  \/ /\ backend.semantic
                       /\ calls' = [calls EXCEPT ![c] =
                              TextDone(call, <<req>>, TextResults(hits, "semantic", req.top))]
                    \/ /\ ~backend.semantic
                       /\ ~backend.lazy
                       /\ calls' = [calls EXCEPT ![c] =
                              [call EXCEPT !.text.st = "fallback",
                                           !.text.rejected = TRUE,
                                           !.text.requests = <<req>>]]
                    \/ /\ ~backend.semantic
                       /\ backend.lazy
                       /\ calls' = [calls EXCEPT ![c] =
                              TextFailed([call EXCEPT !.text.rejected = TRUE],
                                         <<req>>, "SemanticQueriesNotAvailable")]
                    \/ calls' = [calls EXCEPT ![c] =
                              TextFailed(call, <<req>>, "ServiceUnavailable")]
           ELSE LET req == TextRequest(c, "simple", TopSimple(call.search_k))
                IN  \/ calls' = [calls EXCEPT ![c] =
                              TextDone(call, <<req>>, TextResults(hits, "simple", req.top))]
                    \/ calls' = [calls EXCEPT ![c] =
                              TextFailed(call, <<req>>, "ServiceUnavailable")]
    /\ UNCHANGED <<semantic_enabled, llm_service, backend, settings, request, fusion, batch, direct>>

\* the except HttpResponseError branch of run_text_search (lines 464-497):
\* downgrade the flag and re-issue the query as a simple query
TextFallback(c) ==
    /\ calls[c].text.st = "fallback"
    /\ semantic_enabled' = FALSE
    /\ LET call == calls[c]
           req == TextRequest(c, "simple", TopSemantic(call.search_k))
           requests == Append(call.text.requests, req)
       IN  \/ calls' = [calls EXCEPT ![c] =
                 TextDone(call, requests,
                          TextResults(backend.index.text_hits, "simple", req.top))]
           \/ calls' = [calls EXCEPT ![c] =
                 TextFailed(call, requests, "ServiceUnavailable")]
    /\ UNCHANGED <<llm_service, backend, settings, request, fusion, batch, direct>>

\* run_vector_search (lines 546-573): encode the query, query abstract_vector
RunVectorSearch(c) ==
    /\ calls[c].vector.st = "queued"
    /\ WorkerFree
    /\ LET top == TopVector(calls[c].search_k)
           req == [query_type |-> "vector", top |-> top,
                   search_text |-> calls[c].normalized_query,
                   filter |-> Get(calls[c].search_params, "filter", "")]
       IN  \/ calls' = [calls EXCEPT ![c] =
                 [calls[c] EXCEPT !.vector.st = "ok",
                                  !.vector.requests = <<req>>,
                                  !.vector.rows = Top(backend.index.vec_hits, top),
                                  !.completed = Append(@, "vector")]]
           \/ calls' = [calls EXCEPT ![c] =
                 [calls[c] EXCEPT !.vector.st = "failed",
                                  !.vector.requests = <<req>>,
                                  !.vector.error = "ServiceUnavailable",
                                  !.completed = Append(@, "vector")]]
    /\ UNCHANGED <<semantic_enabled, llm_service, backend, settings, request, fusion, batch, direct>>

\* rows, text_count = text_future.result()   (line 580)
AwaitText(c) ==
    /\ calls[c].pc = "await_text"
    /\ calls[c].text.st \in {"ok", "failed"}
    /\ calls' = [calls EXCEPT ![c] =
           IF calls[c].text.st = "failed"
           THEN Finish(calls[c], Raised(calls[c].text.error))
           ELSE [calls[c] EXCEPT !.pc = "await_vector"]]
    /\ UNCHANGED <<semantic_enabled, llm_service, backend, settings, request, fusion, batch, direct>>

\* the merge started without waiting for the vector task
AwaitVectorNoWait(c) ==
    /\ calls[c].pc = "await_vector"
    /\ calls' = [calls EXCEPT ![c] =
           IF calls[c].vector.st = "failed"
           THEN Finish(calls[c], Raised(calls[c].vector.error))
           ELSE LET candidates == MergeCandidates(calls[c].text.rows,
                                                  calls[c].vector.rows)
                IN  Finish([calls[c] EXCEPT !.merged = TRUE,
                                            !.candidates = candidates],
                           ArticlesResponse(
                               candidates, settings,
                               calls[c].normalized_query, request.k,
                               calls[c].page_index, calls[c].page_size))]
    /\ UNCHANGED <<semantic_enabled, llm_service, backend, settings, request, fusion, batch, direct>>

\* a failed vector task answered with the ranking of the text rows alone
AwaitVectorPartial(c) ==
    /\ calls[c].pc = "await_vector"
    /\ calls[c].vector.st \in {"ok", "failed"}
    /\ calls' = [calls EXCEPT ![c] =
           LET candidates == MergeCandidates(calls[c].text.rows,
                                             calls[c].vector.rows)
           IN  Finish([calls[c] EXCEPT !.merged = TRUE,
                                       !.candidates = candidates],
                      ArticlesResponse(
                          candidates, settings,
                          calls[c].normalized_query, request.k,
                          calls[c].page_index, calls[c].page_size))]
    /\ UNCHANGED <<semantic_enabled, llm_service, backend, settings, request, fusion, batch, direct>>

\* vec_res = vector_future.result() (line 581), then merge, fuse, filter and
\* paginate on the calling thread (lines 583-669)
AwaitVector(c) ==
    /\ calls[c].pc = "await_vector"
    /\ calls[c].vector.st \in {"ok", "failed"}
    /\ calls' = [calls EXCEPT ![c] =
           IF calls[c].vector.st = "failed"
           THEN Finish(calls[c], Raised(calls[c].vector.error))
           ELSE LET candidates == MergeCandidates(calls[c].text.rows,
                                                  calls[c].vector.rows)
                IN  Finish([calls[c] EXCEPT !.merged = TRUE,
                                            !.candidates = candidates],
                           ArticlesResponse(
                               candidates, settings,
                               calls[c].normalized_query, request.k,
                               calls[c].page_index, calls[c].page_size))]
    /\ UNCHANGED <<semantic_enabled, llm_service, backend, settings, request, fusion, batch, direct>>

(***************************************************************************)
(* search                                                                  *)
(***************************************************************************)
\* step 1 of search() calls plan_query for queries of five words or more
NormalizationCalls(query) ==
    IF llm_service # None /\ Len(Split(query)) >= 5
    THEN PlanQueryOutcomes
    ELSE {NotCalled}

\* step 1 of search(): the query it forwards to both searches
SearchNormalized(query, outcome) ==
    IF llm_service # None /\ Len(Split(query)) >= 5
    THEN IF outcome.raised THEN query
         ELSE Get(outcome.plan, "normalized_query", query)
    ELSE query

\* a caller runs search(): step 1, then search_articles up to the
\* submission of the two pool tasks
StartSearch(c) ==
    /\ MayStart(c)
    /\ \E query \in request.queries, page_index \in PageIndexes :
       \E normalization \in NormalizationCalls(query), outcome \in PlanCalls :
         LET page_size == IF page_index = NoPage THEN NoPage ELSE request.page_size
             normalized_query == SearchNormalized(query, normalization)
         IN  calls' = [calls EXCEPT ![c] =
                 BeginArticles([calls[c] EXCEPT !.op = "search",
                                                !.query = query,
                                                !.forwarded = normalized_query],
                               normalized_query, page_index, page_size, outcome)]
    /\ UNCHANGED <<semantic_enabled, llm_service, backend, settings, request, fusion, batch, direct>>

\* search() after search_articles returned or raised: search_authors, then
\* the combined result
SearchAuthorsStep(c) ==
    /\ calls[c].pc = "search_authors"
    /\ \E outcome \in PlanCalls, fetch \in {"ok", "failed"} :
         LET call == calls[c]
         IN  calls' = [calls EXCEPT ![c] = SearchReturned(
                 [call EXCEPT
                     !.authors_plan = PlanOutcomeTag(outcome),
                     !.authors_fetch = AuthorsFetch(call.forwarded, outcome, fetch)],
                 search_authors(call.forwarded, outcome, fetch, request.k,
                                call.page_index, call.page_size))]
    /\ UNCHANGED <<semantic_enabled, llm_service, backend, settings, request, fusion, batch, direct>>

(***************************************************************************)
(* fuse_articles / fuse_authors called directly on a candidate list        *)
(***************************************************************************)
\* component scores of a candidate: bm25, semantic, vector, business
ScoreTuples ==
    {<<b, s, v, f>> : b \in {Zero, One, R(2, 1)}, s \in {Zero, R(2, 1)},
                      v \in {Zero, One}, f \in {Zero, R(1, 2)}}

CandidateRows(scores) ==
    [i \in DOMAIN scores |->
        [id |-> i, _bm25 |-> scores[i][1], _semantic |-> scores[i][2],
         _vector |-> scores[i][3], _business |-> scores[i][4]]]

RowInputs ==
    {CandidateRows(scores) :
        scores \in UNION {[1 .. n -> ScoreTuples] : n \in 0 .. MaxRows}}

InitFuse ==
    /\ semantic_enabled = FALSE
    /\ llm_service = None
    /\ backend = [semantic |-> FALSE, lazy |-> TRUE, index |-> IndexOverlap]
    /\ settings = [enable_score_filtering |-> FALSE, score_threshold |-> Zero]
    /\ request = [k |-> 1, page_size |-> 1, queries |-> {}]
    /\ calls = [c \in CallIds |-> [IdleCall EXCEPT !.pc = "unused"]]
    /\ fusion \in {[NoFusion EXCEPT !.rows = rows] : rows \in RowInputs}
    /\ batch = NoBatch
    /\ direct = NoDirect

\* fuse_articles(rows)
FuseArticles ==
    /\ fusion.fn = None
    /\ fusion' = [fusion EXCEPT
                     !.fn = "fuse_articles",
                     !.weights = IF fusion.rows = <<>> THEN EmptyDict
                                 ELSE ArticleWeights(fusion.rows),
                     !.out = fuse_articles(fusion.rows)]
    /\ UNCHANGED <<semantic_enabled, llm_service, backend, settings, request, calls, batch, direct>>

\* fuse_authors(rows)
FuseAuthors ==
    /\ fusion.fn = None
    /\ fusion' = [fusion EXCEPT
                     !.fn = "fuse_authors",
                     !.weights = IF fusion.rows = <<>> THEN EmptyDict
                                 ELSE AuthorWeights(fusion.rows),
                     !.out = fuse_authors(fusion.rows)]
    /\ UNCHANGED <<semantic_enabled, llm_service, backend, settings, request, calls, batch, direct>>

(***************************************************************************)
(* _batch_get_documents(client, document_ids, app_id)                      *)
(***************************************************************************)
\* the service fields of a state in which no public operation is running
InitUnused ==
    /\ semantic_enabled = FALSE
    /\ llm_service = None
    /\ backend = [semantic |-> FALSE, lazy |-> TRUE, index |-> IndexOverlap]
    /\ settings = [enable_score_filtering |-> FALSE, score_threshold |-> Zero]
    /\ request = [k |-> 1, page_size |-> 1, queries |-> {}]
    /\ calls = [c \in CallIds |-> [IdleCall EXCEPT !.pc = "unused"]]
    /\ fusion = NoFusion

\* the document ids a caller may ask for
DocumentIds == 1 .. 3

DocumentIdLists == UNION {[1 .. n -> DocumentIds] : n \in 0 .. MaxIds}

Elements(xs) == {xs[i] : i \in DOMAIN xs}

\* " or ".join(f"id eq '{doc_id}'" ...) merged with the app_id filter
IdFilter(document_ids, app_id) ==
    [ids |-> Elements(document_ids), app_id |-> app_id]

\* client.search(search_text="*", filter=final_filter, top=len(document_ids))
BatchRequest(document_ids, app_id) ==
    [op |-> "search", filter |-> IdFilter(document_ids, app_id),
     top |-> Len(document_ids)]

\* client.get_document(doc_id)
GetRequest(doc_id) == [op |-> "get_document", key |-> doc_id]

\* doc_dict = {doc["id"]: doc for doc in results}
RECURSIVE DocDict(_)
DocDict(results) ==
    IF results = <<>> THEN <<>>
    ELSE DictPut(DocDict(Slice(results, 0, Len(results) - 1)),
                 results[Len(results)])

\* the documents a successful batch search returns: those of the
\* requested ids the index holds, in the order of their ids
RECURSIVE FoundDocs(_, _)
FoundDocs(ids, found) ==
    IF ids = <<>> THEN <<>>
    ELSE IF Head(ids) \in found
              /\ \A j \in 2 .. Len(ids) : ids[j] # Head(ids)
         THEN <<[id |-> Head(ids), doc |-> "document"]>> \o FoundDocs(Tail(ids), found)
         ELSE FoundDocs(Tail(ids), found)

\* AfterBatchSearch that falls back to the per-id fetch after a batch
\* search that returned
AfterBatchSearchAlwaysFallback(b, raised, results) ==
    [b EXCEPT !.pc = "fallback", !.batch_raised = raised,
              !.todo = b.document_ids, !.doc_dict = DocDict(results)]

\* the try block returned (raised = FALSE) or its except clause was entered
AfterBatchSearch(b, raised, results) ==
    IF raised
    THEN [b EXCEPT !.pc = "fallback", !.batch_raised = TRUE,
                   !.todo = b.document_ids]
    ELSE [b EXCEPT !.pc = "returned", !.doc_dict = DocDict(results)]

\* one round of `for doc_id in document_ids` in the except clause
AfterGetDocument(b, raised) ==
    [b EXCEPT
        !.pc = IF Len(b.todo) = 1 THEN "returned" ELSE "fallback",
        !.todo = Tail(b.todo),
        !.doc_dict = IF raised THEN b.doc_dict
                     ELSE DictPut(b.doc_dict,
                                  [id |-> Head(b.todo), doc |-> "document"])]

InitBatch ==
    /\ InitUnused
    /\ batch \in {[NoBatch EXCEPT !.pc = "called", !.document_ids = ids,
                                  !.app_id = app] :
                     ids \in DocumentIdLists, app \in {None, "app"}}
    /\ direct = NoDirect

\* `if not document_ids: return {}`
BatchEmpty ==
    /\ batch.pc = "called"
    /\ batch.document_ids = <<>>
    /\ batch' = [batch EXCEPT !.pc = "returned"]
    /\ UNCHANGED <<semantic_enabled, llm_service, backend, settings, request, calls, fusion, direct>>

\* the try block: one search filtered on the ids, read into a dict; the
\* request is sent when search() is called or when the result is iterated,
\* both inside the try
BatchSearch ==
    /\ batch.pc = "called"
    /\ batch.document_ids # <<>>
    /\ \E raised \in BOOLEAN, found \in SUBSET Elements(batch.document_ids) :
         /\ raised => found = {}
         /\ batch' = AfterBatchSearch(
                [batch EXCEPT !.requests =
                    Append(@, BatchRequest(batch.document_ids, batch.app_id))],
                raised, FoundDocs(batch.document_ids, found))
    /\ UNCHANGED <<semantic_enabled, llm_service, backend, settings, request, calls, fusion, direct>>

\* the except clause: get_document for the next id, skipped when it raises
GetDocument ==
    /\ batch.pc = "fallback"
    /\ batch.todo # <<>>
    /\ \E raised \in BOOLEAN :
         batch' = AfterGetDocument(
             [batch EXCEPT !.requests = Append(@, GetRequest(Head(batch.todo)))],
             raised)
    /\ UNCHANGED <<semantic_enabled, llm_service, backend, settings, request, calls, fusion, direct>>

(***************************************************************************)
(* _minmax / _norm called directly on the raw values of one component      *)
(***************************************************************************)
\* raw values of a component
RawValues == {Zero, R(1, 2), One, R(5, 2)}

ValueLists == UNION {[1 .. n -> RawValues] : n \in 1 .. MaxValues}

InitNorm ==
    /\ InitUnused
    /\ batch = NoBatch
    /\ direct \in {[fn |-> None, vs |-> vs, out |-> <<>>] : vs \in ValueLists}

\* bounds = _minmax(vs); [_norm(v, bounds) for v in vs]
NormalizeValues ==
    /\ direct.fn = None
    /\ direct' = [direct EXCEPT
                     !.fn = "_norm",
                     !.out = [i \in DOMAIN direct.vs |->
                                 Norm(direct.vs[i], Minmax(direct.vs))]]
    /\ UNCHANGED <<semantic_enabled, llm_service, backend, settings, request, calls, fusion, batch>>

(***************************************************************************)
(* _fuzzy_match_authors called directly                                    *)
(***************************************************************************)
\* query texts: an exact name in another case, a single word, initials, a
\* name with other punctuation and spacing, a misspelt name, punctuation
\* only, the empty string
FuzzyQueries ==
    { QueryShort,
      PlannedQuery,
      <<"j", " ", "l">>,
      <<"J", "O", "-", "-", "l", "e", "e", " ">>,
      <<"j", "o", "s", "s", "e">>,
      <<"?">>,
      <<>> }

\* author documents: names with an accent, with two words, with a hyphen,
\* of punctuation only, empty and missing
FuzzyAuthors ==
    { [id |-> 1, full_name |-> <<"J", "o", "s", "é">>],
      [id |-> 2, full_name |-> <<"J", "o", " ", "L", "e", "e">>],
      [id |-> 3],
      [id |-> 4, full_name |-> <<"A", "n", "n">>],
      [id |-> 5, full_name |-> <<"J", "o", "s", "e", " ", "L", "e", "e">>],
      [id |-> 6, full_name |-> <<"L", "e", "e", "-", "A", "n", "n">>],
      [id |-> 7, full_name |-> <<"-">>],
      [id |-> 8, full_name |-> <<>>] }

\* author lists without repeated documents
AuthorLists ==
    {authors \in UNION {[1 .. n -> FuzzyAuthors] : n \in 0 .. MaxAuthors} :
        \A i, j \in DOMAIN authors : i # j => authors[i].id # authors[j].id}

InitFuzzy ==
    /\ InitUnused
    /\ batch = NoBatch
    /\ direct \in {[fn |-> None, query |-> query, all_authors |-> authors,
                    k |-> k, raised |-> FALSE, matches |-> <<>>,
                    scored |-> <<>>] :
                      query \in FuzzyQueries, authors \in AuthorLists,
                      k \in 1 .. MaxK}

\* the call returned `fuzzy.matches` or raised
FuzzyCalled(d, fuzzy) ==
    [d EXCEPT !.fn = "_fuzzy_match_authors",
              !.raised = fuzzy.raised,
              !.matches = fuzzy.matches,
              !.scored = IF fuzzy.raised THEN <<>>
                         ELSE ScoredAuthors(d.query, d.all_authors)]

\* _fuzzy_match_authors(query, all_authors, k)
FuzzyMatch ==
    /\ direct.fn = None
    /\ direct' = FuzzyCalled(direct,
                     fuzzy_match_authors(direct.query, direct.all_authors,
                                         direct.k))
    /\ UNCHANGED <<semantic_enabled, llm_service, backend, settings, request, calls, fusion, batch>>

(***************************************************************************)
(* The tail of _search_articles_planned on a merged candidate list: fuse,  *)
(* _apply_score_threshold, paginate                                        *)
(***************************************************************************)
\* SETTINGS.enable_score_filtering / SETTINGS.score_threshold
ThresholdSettings ==
    { [enable_score_filtering |-> flag, score_threshold |-> threshold] :
        flag \in BOOLEAN, threshold \in {R(0 - 1, 2), Zero, R(1, 2)} }

\* component scores of the merged candidates
RankTuples ==
    { <<R(2, 1), R(2, 1), One, R(1, 2)>>,
      <<One, Zero, One, Zero>>,
      <<Zero, R(2, 1), Zero, R(1, 2)>>,
      <<Zero, Zero, Zero, Zero>> }

RankInputs ==
    {CandidateRows(scores) :
        scores \in UNION {[1 .. n -> RankTuples] : n \in 0 .. MaxRows}}

InitRank ==
    /\ InitUnused
    /\ batch = NoBatch
    /\ direct \in {[fn |-> None, rows |-> rows, cfg |-> cfg, k |-> k,
                    page_index |-> page_index,
                    page_size |-> IF page_index = NoPage THEN NoPage ELSE k,
                    fused |-> <<>>, filtered |-> <<>>,
                    response |-> NoResponse] :
                      rows \in RankInputs, cfg \in ThresholdSettings,
                      k \in 1 .. MaxPageSize, page_index \in PageIndexes}

\* lines 627-669 of _search_articles_planned
RankArticles ==
    /\ direct.fn = None
    /\ direct' = [direct EXCEPT
                     !.fn = "_search_articles_planned",
                     !.fused = fuse_articles(direct.rows),
                     !.filtered = ApplyScoreThreshold(fuse_articles(direct.rows),
                                                      direct.cfg),
                     !.response = ArticlesResponse(direct.rows, direct.cfg, <<>>,
                                      direct.k, direct.page_index,
                                      direct.page_size)]
    /\ UNCHANGED <<semantic_enabled, llm_service, backend, settings, request, calls, fusion, batch>>

(***************************************************************************)
(* business_freshness called directly                                      *)
(***************************************************************************)
\* ages in days: one half-life in the future, now, and whole half-lives back
Ages == {h * freshness_halflife_days : h \in (0 - 1) .. MaxHalfLives}

\* the instants of these ages, in days since 1970-01-01
EpochDays == {NowDays - age : age \in Ages}

\* two instants before 2001-09-09, whose milliseconds do not exceed 1e12:
\* 1970-01-21 and 1999-06-08
EarlyDays == {20, NowDays - 10000}

TextForms == {"%Y-%m-%d %H:%M:%S", "%Y-%m-%dT%H:%M:%S", "%Y-%m-%d", "Z"}

PlainDates ==
    {NoDate, GarbageDate, EmptyString, OtherType, Epoch("s", 0), Epoch("ms", 0)}
        \cup {DateAged(age) : age \in Ages}
        \cup {TextDate(form, age) : form \in TextForms, age \in Ages}
        \cup {Datetime(aware, age) : aware \in BOOLEAN, age \in Ages}
        \cup {Epoch(unit, days) : unit \in {"s", "ms"}, days \in EpochDays}
        \cup {Epoch("ms", days) : days \in EarlyDays}

\* a dict may hold any of them but the epoch number 0, whose age of 83
\* half-lives is beyond MaxHalfLives
BusinessDates ==
    PlainDates \cup {NoKeys, DictWithoutDate}
        \cup {DictWith(value) :
                 value \in PlainDates \ {Epoch("s", 0), Epoch("ms", 0)}}

InitFresh ==
    /\ InitUnused
    /\ batch = NoBatch
    /\ direct \in {[fn |-> None, business_date |-> value, out |-> Zero] :
                      value \in BusinessDates}

\* business_freshness(business_date)
BusinessFreshness ==
    /\ direct.fn = None
    /\ direct' = [direct EXCEPT
                     !.fn = "business_freshness",
                     !.out = business_freshness(direct.business_date)]
    /\ UNCHANGED <<semantic_enabled, llm_service, backend, settings, request, calls, fusion, batch>>

(***************************************************************************)
(* fuse_articles / fuse_authors called on candidates that may be malformed *)
(***************************************************************************)
\* a value that is not a number (None, a string)
NotANumber == <<0, 0>>

ScoreKeys == {"_bm25", "_semantic", "_vector", "_business"}

\* any(sem > 0.0 ...), min(vs) / math.isclose in _minmax, max(bm25s) and the
\* weighted sum raise TypeError on a value that is not a number
ScoringRaises(rows) ==
    \E i \in DOMAIN rows, key \in ScoreKeys :
        key \in DOMAIN rows[i] /\ rows[i][key] = NotANumber

\* a candidate without the key, and one whose value under it is no number
WithoutKey(r, key) == [name \in DOMAIN r \ {key} |-> r[name]]

WithBadValue(r, key) == [r EXCEPT ![key] = NotANumber]

WellFormedTuples ==
    { <<R(2, 1), R(2, 1), One, R(1, 2)>>, <<One, Zero, R(1, 2), One>> }

WellFormedRows ==
    {CandidateRows(scores) :
        scores \in UNION {[1 .. n -> WellFormedTuples] : n \in 1 .. MaxMalformedRows}}

\* the lists with at most one malformed candidate
MalformedInputs ==
    WellFormedRows
        \cup UNION {{[rows EXCEPT ![i] = WithoutKey(rows[i], key)] :
                        i \in DOMAIN rows, key \in ScoreKeys} :
                     rows \in WellFormedRows}
        \cup UNION {{[rows EXCEPT ![i] = WithBadValue(rows[i], key)] :
                        i \in DOMAIN rows, key \in ScoreKeys} :
                     rows \in WellFormedRows}

InitMalformed ==
    /\ InitUnused
    /\ batch = NoBatch
    /\ direct \in {[fn |-> None, rows |-> rows, raised |-> FALSE, out |-> <<>>] :
                      rows \in MalformedInputs}

\* fuse_articles(rows): the except clause re-raises
CallFuseArticles ==
    /\ direct.fn = None
    /\ direct' = [direct EXCEPT
                     !.fn = "fuse_articles",
                     !.raised = ScoringRaises(direct.rows),
                     !.out = IF ScoringRaises(direct.rows) THEN <<>>
                             ELSE fuse_articles(direct.rows)]
    /\ UNCHANGED <<semantic_enabled, llm_service, backend, settings, request, calls, fusion, batch>>

\* fuse_authors(rows): the except clause re-raises
CallFuseAuthors ==
    /\ direct.fn = None
    /\ direct' = [direct EXCEPT
                     !.fn = "fuse_authors",
                     !.raised = ScoringRaises(direct.rows),
                     !.out = IF ScoringRaises(direct.rows) THEN <<>>
                             ELSE fuse_authors(direct.rows)]
    /\ UNCHANGED <<semantic_enabled, llm_service, backend, settings, request, calls, fusion, batch>>

(***************************************************************************)
(* The paginating tails of _search_articles_planned and                    *)
(* _search_authors_planned on a candidate list                             *)
(***************************************************************************)
\* scores the fuzzy matcher hands out, best first
MatchScores == {One, R(1, 2), R(1, 20)}

\* results of _fuzzy_match_authors: distinct authors in descending score order
MatchLists ==
    { [i \in DOMAIN scores |-> [author |-> [id |-> i], score |-> scores[i]]] :
        scores \in {s \in UNION {[1 .. n -> MatchScores] : n \in 0 .. MaxRows} :
                       \A i, j \in DOMAIN s : i < j => RLe(s[j], s[i])} }

InitPage ==
    /\ InitUnused
    /\ batch = NoBatch
    /\ direct \in
         {[fn |-> None, search_type |-> "articles", rows |-> rows, cfg |-> cfg,
           k |-> MaxK, page_index |-> page_index, page_size |-> page_size,
           ranked |-> <<>>, response |-> NoResponse] :
             rows \in RankInputs, cfg \in ThresholdSettings,
             page_index \in 0 .. MaxPage, page_size \in 1 .. MaxPageSize}
         \cup
         {[fn |-> None, search_type |-> "authors", rows |-> matches, cfg |-> cfg,
           k |-> MaxK, page_index |-> page_index, page_size |-> page_size,
           ranked |-> <<>>, response |-> NoResponse] :
             matches \in MatchLists, cfg \in ThresholdSettings,
             page_index \in 0 .. MaxPage, page_size \in 1 .. MaxPageSize}

\* lines 627-658 of _search_articles_planned
PageArticles ==
    /\ direct.fn = None
    /\ direct.search_type = "articles"
    /\ direct' = [direct EXCEPT
                     !.fn = "_search_articles_planned",
                     !.ranked = ApplyScoreThreshold(fuse_articles(direct.rows),
                                                    direct.cfg),
                     !.response = ArticlesResponse(direct.rows, direct.cfg, <<>>,
                                      direct.k, direct.page_index,
                                      direct.page_size)]
    /\ UNCHANGED <<semantic_enabled, llm_service, backend, settings, request, calls, fusion, batch>>

\* lines 338-389 of _search_authors_planned
PageAuthors ==
    /\ direct.fn = None
    /\ direct.search_type = "authors"
    /\ direct' = [direct EXCEPT
                     !.fn = "_search_authors_planned",
                     !.ranked = SortedByFinalDesc(ApplyScoreThreshold(
                                    fuse_authors(AuthorRows(direct.rows)),
                                    direct.cfg)),
                     !.response = AuthorsResponse(
                                      [raised |-> FALSE, matches |-> direct.rows],
                                      direct.cfg, <<>>, direct.k,
                                      direct.page_index, direct.page_size)]
    /\ UNCHANGED <<semantic_enabled, llm_service, backend, settings, request, calls, fusion, batch>>

(***************************************************************************)
(* ai_search SearchService: _search_articles_planned and                   *)
(* _search_authors_planned, pages 0 and 1 of one search                    *)
(***************************************************************************)
\* search_k = max(total_needed, k * 2) of both ai_search planned searches
AiSearchK(k, page_index, page_size) ==
    IF page_index # NoPage /\ page_size # NoPage
    THEN Max(page_index * page_size + page_size, k * 2)
    ELSE k

\* int(search_k * 1.1), int(search_k * 1.3)
IntOfTenths(search_k, tenths) == (search_k * tenths) \div 10

\* the pagination block of the ai_search planned searches
AiPlannedResponse(all_fused_results, search_type, normalized_query, k, page_index, page_size) ==
    IF page_index # NoPage /\ page_size # NoPage
    THEN LET total_results == Len(all_fused_results)
             start_idx == page_index * page_size
             end_idx == start_idx + page_size
         IN  [status |-> "ok",
              results |-> Slice(all_fused_results, start_idx, end_idx),
              normalized_query |-> normalized_query,
              pagination |->
                  [present |-> TRUE,
                   page_index |-> page_index,
                   page_size |-> page_size,
                   total_results |-> total_results,
                   total_pages |-> (total_results + page_size - 1) \div page_size,
                   has_next |-> end_idx < total_results,
                   has_previous |-> page_index > 0],
              search_type |-> search_type]
    ELSE [status |-> "ok",
          results |-> Slice(all_fused_results, 0, k),
          normalized_query |-> normalized_query,
          pagination |-> NoPagination,
          search_type |-> search_type]

Lower(text) == [i \in DOMAIN text |-> LowerChar(text[i])]

\* final_score of SearchService._fuzzy_match_authors for one author
AiFinalScore(query_lower, full_name) ==
    LET name_similarity == Ratio(query_lower, full_name)
        words == Split(query_lower)
        partial_name_match ==
            IF IsSubstring(query_lower, full_name) THEN R(8, 10)
            ELSE IF \E i \in DOMAIN words : IsSubstring(words[i], full_name)
                 THEN R(6, 10)
                 ELSE Zero
    IN  RMax(name_similarity, partial_name_match)

\* SearchService._fuzzy_match_authors(query, all_authors, k)
ai_fuzzy_match_authors(query, all_authors, k) ==
    LET query_lower == Strip(Lower(query))
        scored == [i \in DOMAIN all_authors |->
                      [author |-> all_authors[i],
                       score |-> AiFinalScore(query_lower,
                                     Lower(Get(all_authors[i], "full_name", <<>>)))]]
        matches == SelectSeq(scored, LAMBDA m : RLt(R(1, 10), m.score))
    IN  Top(SortMatches(matches), k)

\* SearchService._search_authors_planned with the authors of the index
ai_search_authors_planned(normalized_query, all_authors, k, page_index, page_size) ==
    AiPlannedResponse(
        fuse_authors(AuthorRows(ai_fuzzy_match_authors(
            normalized_query, all_authors,
            AiSearchK(k, page_index, page_size)))),
        "authors", normalized_query, k, page_index, page_size)

\* the documents of the articles index a vector query ranks: each has an id
AiVecHits(index) == SelectSeq(index.vec_hits, LAMBDA d : d.id # NoId)

\* the text query of _search_articles_planned: semantic, simple after the
\* service refused the semantic query, or simple from the start
AiTextResults(index, semantic, capable, search_k) ==
    IF semantic /\ capable
    THEN TextResults(index.text_hits, "semantic", IntOfTenths(search_k, 11))
    ELSE IF semantic
    THEN TextResults(index.text_hits, "simple", IntOfTenths(search_k, 11))
    ELSE TextResults(index.text_hits, "simple", IntOfTenths(search_k, 13))

\* lines 521-544: vector scores onto the text rows; vector hits the text
\* query did not find become rows of their own, with the document
\* _batch_get_documents fetched for them
AiCandidates(rows, vec_res) ==
    LET id_to_row == IdToRow(rows)
        scored == [i \in DOMAIN id_to_row |->
                      IF \E j \in DOMAIN vec_res : vec_res[j].id = id_to_row[i].id
                      THEN [id_to_row[i] EXCEPT !._vector =
                               vec_res[CHOOSE j \in DOMAIN vec_res :
                                   /\ vec_res[j].id = id_to_row[i].id
                                   /\ \A l \in DOMAIN vec_res :
                                        vec_res[l].id = id_to_row[i].id => l <= j].score]
                      ELSE id_to_row[i]]
        vec_new == SelectSeq(vec_res, LAMBDA d : ~DictHas(id_to_row, d.id))
    IN  scored \o [i \in DOMAIN vec_new |->
                      [id |-> vec_new[i].id, doc |-> vec_new[i],
                       _bm25 |-> Zero, _semantic |-> Zero,
                       _vector |-> vec_new[i].score,
                       _business |-> business_freshness(
                           Get(vec_new[i], "business_date", NoDate))]]

\* SearchService._search_articles_planned on the articles of the index
ai_search_articles_planned(normalized_query, index, semantic, capable, k, page_index, page_size) ==
    LET search_k == AiSearchK(k, page_index, page_size)
        rows == TextRows(AiTextResults(index, semantic, capable, search_k))
        vec_res == Top(AiVecHits(index), IntOfTenths(search_k, 11))
    IN  AiPlannedResponse(fuse_articles(AiCandidates(rows, vec_res)),
                          "articles", normalized_query, k, page_index, page_size)

\* one SearchService, its index, and one query asked for pages 0 and 1
InitAi ==
    /\ InitUnused
    /\ batch = NoBatch
    /\ direct \in
         {[fn |-> None, search_type |-> search_type, index |-> index,
           semantic_enabled |-> semantic, capable |-> capable,
           query |-> query, k |-> k, page_size |-> page_size,
           pages |-> [p \in 0 .. MaxPage |-> NoResponse]] :
             search_type \in {"articles", "authors"}, index \in Indexes,
             semantic \in BOOLEAN, capable \in BOOLEAN,
             query \in {QueryShort, QueryLong},
             k \in 1 .. MaxK, page_size \in 1 .. MaxPageSize}

\* a caller asks for page p of the articles
AiSearchArticles(p) ==
    /\ direct.search_type = "articles"
    /\ direct.pages[p] = NoResponse
    /\ \E failed \in BOOLEAN :
         direct' = [direct EXCEPT
             !.fn = "_search_articles_planned",
             !.semantic_enabled = @ /\ (direct.capable \/ failed),
             !.pages[p] =
                 IF failed THEN Raised("HttpResponseError")
                 ELSE ai_search_articles_planned(direct.query, direct.index,
                          direct.semantic_enabled, direct.capable, direct.k, p,
                          direct.page_size)]
    /\ UNCHANGED <<semantic_enabled, llm_service, backend, settings, request, calls, fusion, batch>>

\* a caller asks for page p of the authors
AiSearchAuthors(p) ==
    /\ direct.search_type = "authors"
    /\ direct.pages[p] = NoResponse
    /\ direct' = [direct EXCEPT
           !.fn = "_search_authors_planned",
           !.pages[p] = ai_search_authors_planned(direct.query,
                            direct.index.authors, direct.k, p, direct.page_size)]
    /\ UNCHANGED <<semantic_enabled, llm_service, backend, settings, request, calls, fusion, batch>>

(***************************************************************************)
(* self.executor: the ThreadPoolExecutor of max_workers threads that runs  *)
(* run_text_search and run_vector_search of every search call              *)
(***************************************************************************)
PoolCalls == 1 .. MaxPoolCalls

\* worker threads that run a task
Busy(d) ==
    Cardinality({c \in PoolCalls : d.text[c] \in {"first", "second"}})
        + Cardinality({c \in PoolCalls : d.vector[c] = "running"})

InitPool ==
    /\ InitUnused
    /\ batch = NoBatch
    /\ direct = [fn |-> "executor",
                 pc |-> [c \in PoolCalls |-> "idle"],
                 queue |-> <<>>,
                 text |-> [c \in PoolCalls |-> "none"],
                 vector |-> [c \in PoolCalls |-> "none"]]

\* text_future = self.executor.submit(run_text_search)   (line 576)
SubmitText(c) ==
    /\ direct.pc[c] = "idle"
    /\ direct' = [direct EXCEPT
                     !.pc[c] = "submit_vector",
                     !.text[c] = "queued",
                     !.queue = Append(@, [call |-> c, task |-> "text"])]
    /\ UNCHANGED <<semantic_enabled, llm_service, backend, settings, request, calls, fusion, batch>>

\* SubmitVector on a pool that turns the task away while every worker is busy
SubmitVectorTurnedAway(c) ==
    /\ direct.pc[c] = "submit_vector"
    /\ direct' = IF Busy(direct) = max_workers
                 THEN [direct EXCEPT !.pc[c] = "await_text"]
                 ELSE [direct EXCEPT
                          !.pc[c] = "await_text",
                          !.vector[c] = "queued",
                          !.queue = Append(@, [call |-> c, task |-> "vector"])]
    /\ UNCHANGED <<semantic_enabled, llm_service, backend, settings, request, calls, fusion, batch>>

\* vector_future = self.executor.submit(run_vector_search)   (line 577)
SubmitVector(c) ==
    /\ direct.pc[c] = "submit_vector"
    /\ direct' = [direct EXCEPT
                     !.pc[c] = "await_text",
                     !.vector[c] = "queued",
                     !.queue = Append(@, [call |-> c, task |-> "vector"])]
    /\ UNCHANGED <<semantic_enabled, llm_service, backend, settings, request, calls, fusion, batch>>

\* a free worker thread takes the oldest task of the work queue
TakeTask ==
    /\ direct.queue # <<>>
    /\ Busy(direct) < max_workers
    /\ LET t == Head(direct.queue)
       IN  direct' =
               IF t.task = "text"
               THEN [direct EXCEPT !.queue = Tail(@), !.text[t.call] = "first"]
               ELSE [direct EXCEPT !.queue = Tail(@), !.vector[t.call] = "running"]
    /\ UNCHANGED <<semantic_enabled, llm_service, backend, settings, request, calls, fusion, batch>>

\* the backend answers the query of run_text_search: rows, an error, or the
\* refusal of the semantic query that makes the task ask again
TextReturns(c) ==
    /\ direct.text[c] \in {"first", "second"}
    /\ \E answer \in {"ok", "failed"}
                         \cup (IF direct.text[c] = "first" THEN {"second"} ELSE {}) :
         direct' = [direct EXCEPT !.text[c] = answer]
    /\ UNCHANGED <<semantic_enabled, llm_service, backend, settings, request, calls, fusion, batch>>

\* encode and the vector query of run_vector_search return or raise
VectorReturns(c) ==
    /\ direct.vector[c] = "running"
    /\ \E answer \in {"ok", "failed"} :
         direct' = [direct EXCEPT !.vector[c] = answer]
    /\ UNCHANGED <<semantic_enabled, llm_service, backend, settings, request, calls, fusion, batch>>

\* rows, text_count = text_future.result()   (line 580)
PoolAwaitText(c) ==
    /\ direct.pc[c] = "await_text"
    /\ direct.text[c] \in {"ok", "failed"}
    /\ direct' = [direct EXCEPT
                     !.pc[c] = IF direct.text[c] = "failed" THEN "raised"
                               ELSE "await_vector"]
    /\ UNCHANGED <<semantic_enabled, llm_service, backend, settings, request, calls, fusion, batch>>

\* vec_res = vector_future.result()   (line 581), then the rest of the call
PoolAwaitVector(c) ==
    /\ direct.pc[c] = "await_vector"
    /\ direct.vector[c] \in {"ok", "failed"}
    /\ direct' = [direct EXCEPT
                     !.pc[c] = IF direct.vector[c] = "failed" THEN "raised"
                               ELSE "returned"]
    /\ UNCHANGED <<semantic_enabled, llm_service, backend, settings, request, calls, fusion, batch>>

(***************************************************************************)
(* RecommendationService.get_article_recommendations on one article        *)
(***************************************************************************)
\* self.cache_duration_minutes
cache_duration_minutes == 60

\* the id of the article, and the ids a search may return
ThisArticle == 1
ArticleIds == 1 .. 3

\* an article document without recommended_time
NoTime == 0 - 1

\* is_recommendations_cache_valid with the boundary inside the window
IsCacheValidInclusive(article, now) ==
    IF article.recommended_time = NoTime THEN FALSE
    ELSE now - article.recommended_time <= cache_duration_minutes

\* is_recommendations_cache_valid(article): recommended_time is a naive UTC
\* isoformat string written by the service, or absent
is_recommendations_cache_valid(article, now) ==
    IF article.recommended_time = NoTime THEN FALSE
    ELSE now - article.recommended_time < cache_duration_minutes

\* what search_articles does for _generate_fresh_recommendations: it
\* returns result documents or raises
SearchOutcomes ==
    {[raised |-> TRUE, results |-> <<>>]}
        \cup {[raised |-> FALSE, results |-> results] :
                 results \in {r \in UNION {[1 .. n -> ArticleIds] :
                                              n \in 0 .. MaxSearchResults} :
                                 \A i, j \in DOMAIN r : i # j => r[i] # r[j]}}

\* the loop of _generate_fresh_recommendations: every result but the
\* article itself, at most 10 of them
Recommendations(results) ==
    Top(SelectSeq(results, LAMBDA id : id # ThisArticle), 10)

\* _generate_fresh_recommendations(article, app_id)
generate_fresh_recommendations(article, outcome) ==
    IF article.abstract = <<>> THEN <<>>
    ELSE IF outcome.raised THEN <<>>
    ELSE Recommendations(outcome.results)

NewArticle(abstract) ==
    [abstract |-> abstract, recommended |-> <<>>, recommended_time |-> NoTime]

NoCall == [at |-> 0, before |-> NewArticle(<<>>), generated |-> FALSE,
           searched |-> FALSE, fresh |-> <<>>, persist |-> None, recommendations |-> <<>>,
           was_refreshed |-> FALSE]

\* the article as created: no recommendations stored yet
InitRecommend ==
    /\ InitUnused
    /\ batch = NoBatch
    /\ direct \in {[fn |-> None, now |-> 0,
                    article |-> NewArticle(abstract),
                    call |-> NoCall] :
                      abstract \in {<<>>, QueryShort}}

\* time passes between two requests
Tick ==
    /\ direct.now < MaxTicks * TickMinutes
    /\ direct' = [direct EXCEPT !.now = @ + TickMinutes]
    /\ UNCHANGED <<semantic_enabled, llm_service, backend, settings, request, calls, fusion, batch>>

\* get_article_recommendations(article_id) for the stored article: the
\* search answers with `outcome`; update_article succeeds, raises before the
\* upsert took effect, or raises after it did
GetArticleRecommendations ==
    \E outcome \in SearchOutcomes, persist \in {"ok", "raised", "raised_after_write"} :
        LET article == direct.article
            cached_recommendations == article.recommended
            fresh_recommendations == generate_fresh_recommendations(article, outcome)
            call == [NoCall EXCEPT !.at = direct.now, !.before = article]
        IN  /\ direct' =
                 IF cached_recommendations # <<>>
                    /\ is_recommendations_cache_valid(article, direct.now)
                 THEN [direct EXCEPT
                          !.fn = "get_article_recommendations",
                          !.call = [call EXCEPT
                                       !.recommendations = cached_recommendations]]
                 ELSE IF fresh_recommendations = <<>>
                 THEN [direct EXCEPT
                          !.fn = "get_article_recommendations",
                          !.call = [call EXCEPT
                                       !.generated = TRUE,
                                       !.searched = article.abstract # <<>>,
                                       !.recommendations = cached_recommendations]]
                 ELSE IF persist = "raised"
                 THEN [direct EXCEPT
                          !.fn = "get_article_recommendations",
                          !.call = [call EXCEPT
                                       !.generated = TRUE,
                                       !.searched = TRUE,
                                       !.fresh = fresh_recommendations,
                                       !.persist = persist]]
                 ELSE IF persist = "raised_after_write"
                 THEN [direct EXCEPT
                          !.fn = "get_article_recommendations",
                          !.article.recommended = fresh_recommendations,
                          !.article.recommended_time = direct.now,
                          !.call = [call EXCEPT
                                       !.generated = TRUE,
                                       !.searched = TRUE,
                                       !.fresh = fresh_recommendations,
                                       !.persist = persist]]
                 ELSE [direct EXCEPT
                          !.fn = "get_article_recommendations",
                          !.article.recommended = fresh_recommendations,
                          !.article.recommended_time = direct.now,
                          !.call = [call EXCEPT
                                       !.generated = TRUE,
                                       !.searched = TRUE,
                                       !.fresh = fresh_recommendations,
                                       !.persist = persist,
                                       !.recommendations = fresh_recommendations,
                                       !.was_refreshed = TRUE]]
            /\ UNCHANGED <<semantic_enabled, llm_service, backend, settings, request, calls, fusion, batch>>

(***************************************************************************)
(* Follow relation: repositories/user_repo.py follow_user / unfollow_user   *)
(***************************************************************************)
UserIds == 1 .. MaxUsers
\* an id no user document has
UnknownUserId == MaxUsers + 1
CallerIds == UserIds \cup {UnknownUserId}

\* where the database fails during a call, if anywhere
FailurePoints ==
    {"nowhere", "read_follower", "upsert_follower", "read_followee", "upsert_followee"}

\* get_user_by_id(user_id) finds a document
UserFound(users, user_id) == user_id \in DOMAIN users

\* follow_user(follower_id, followee_id): the users container afterwards and
\* the value returned, the database failing at `fails`
follow_user(users, follower_id, followee_id, fails) ==
    IF fails = "read_follower" THEN [users |-> users, returned |-> FALSE]
    ELSE IF ~UserFound(users, follower_id) THEN [users |-> users, returned |-> FALSE]
    ELSE IF followee_id \in users[follower_id].following
    THEN [users |-> users, returned |-> FALSE]
    ELSE IF fails = "upsert_follower" THEN [users |-> users, returned |-> FALSE]
    ELSE LET following == users[follower_id].following \cup {followee_id}
             upserted == [users EXCEPT ![follower_id].following = following]
         IN  IF fails = "read_followee" THEN [users |-> upserted, returned |-> FALSE]
             ELSE IF ~UserFound(upserted, followee_id)
             THEN [users |-> upserted, returned |-> FALSE]
             ELSE IF fails = "upsert_followee"
             THEN [users |-> upserted, returned |-> FALSE]
             ELSE [users |-> [upserted EXCEPT ![followee_id].followers =
                                                  @ \cup {follower_id}],
                   returned |-> TRUE]

\* unfollow_user(follower_id, followee_id)
unfollow_user(users, follower_id, followee_id, fails) ==
    IF fails = "read_follower" THEN [users |-> users, returned |-> FALSE]
    ELSE IF ~UserFound(users, follower_id) THEN [users |-> users, returned |-> FALSE]
    ELSE IF fails = "upsert_follower" THEN [users |-> users, returned |-> FALSE]
    ELSE LET following == users[follower_id].following \ {followee_id}
             upserted == [users EXCEPT ![follower_id].following = following]
         IN  IF fails = "read_followee" THEN [users |-> upserted, returned |-> FALSE]
             ELSE IF ~UserFound(upserted, followee_id)
             THEN [users |-> upserted, returned |-> FALSE]
             ELSE IF fails = "upsert_followee"
             THEN [users |-> upserted, returned |-> FALSE]
             ELSE [users |-> [upserted EXCEPT ![followee_id].followers =
                                                  @ \ {follower_id}],
                   returned |-> TRUE]

\* users as registered: nobody follows anybody
InitFollow ==
    /\ InitUnused
    /\ batch = NoBatch
    /\ direct = [fn |-> None,
                 users |-> [u \in UserIds |-> [following |-> {}, followers |-> {}]],
                 returned |-> FALSE]

FollowUser ==
    \E follower_id \in CallerIds, followee_id \in CallerIds, fails \in FailurePoints :
        LET done == follow_user(direct.users, follower_id, followee_id, fails)
        IN  /\ direct' = [fn |-> "follow_user", users |-> done.users,
                          returned |-> done.returned]
            /\ UNCHANGED <<semantic_enabled, llm_service, backend, settings, request, calls, fusion, batch>>

UnfollowUser ==
    \E follower_id \in CallerIds, followee_id \in CallerIds, fails \in FailurePoints :
        LET done == unfollow_user(direct.users, follower_id, followee_id, fails)
        IN  /\ direct' = [fn |-> "unfollow_user", users |-> done.users,
                          returned |-> done.returned]
            /\ UNCHANGED <<semantic_enabled, llm_service, backend, settings, request, calls, fusion, batch>>

(***************************************************************************)
(* Specifications                                                          *)
(***************************************************************************)
Next ==
    \E c \in CallIds :
        \/ StartArticles(c)
        \/ StartAuthors(c)
        \/ RunTextSearch(c)
        \/ TextFallback(c)
        \/ RunVectorSearch(c)
        \/ AwaitText(c)
        \/ AwaitVector(c)

Spec == Init /\ [][Next]_vars

NextApi ==
    \E c \in CallIds :
        \/ StartSearch(c)
        \/ SearchAuthorsStep(c)
        \/ StartArticles(c)
        \/ StartAuthors(c)
        \/ RunTextSearch(c)
        \/ TextFallback(c)
        \/ RunVectorSearch(c)
        \/ AwaitText(c)
        \/ AwaitVector(c)

SpecApi == InitApi /\ [][NextApi]_vars

NextFuse == FuseArticles \/ FuseAuthors

SpecFuse == InitFuse /\ [][NextFuse]_vars

NextBatch == BatchEmpty \/ BatchSearch \/ GetDocument

SpecBatch == InitBatch /\ [][NextBatch]_vars

NextNorm == NormalizeValues

SpecNorm == InitNorm /\ [][NextNorm]_vars

NextFuzzy == FuzzyMatch

SpecFuzzy == InitFuzzy /\ [][NextFuzzy]_vars

NextRank == RankArticles

SpecRank == InitRank /\ [][NextRank]_vars

NextFresh == BusinessFreshness

SpecFresh == InitFresh /\ [][NextFresh]_vars

NextMalformed == CallFuseArticles \/ CallFuseAuthors

SpecMalformed == InitMalformed /\ [][NextMalformed]_vars

NextPage == PageArticles \/ PageAuthors

SpecPage == InitPage /\ [][NextPage]_vars

NextAi == \E p \in 0 .. MaxPage : AiSearchArticles(p) \/ AiSearchAuthors(p)

SpecAi == InitAi /\ [][NextAi]_vars

NextPool ==
    \/ TakeTask
    \/ \E c \in PoolCalls :
         \/ SubmitText(c)
         \/ SubmitVector(c)
         \/ TextReturns(c)
         \/ VectorReturns(c)
         \/ PoolAwaitText(c)
         \/ PoolAwaitVector(c)

\* a caller that submitted its first task goes on; a free worker takes a
\* queued task; every backend call returns; a caller whose future is done
\* resumes
FairPool ==
    /\ WF_vars(TakeTask)
    /\ \A c \in PoolCalls :
         /\ WF_vars(SubmitVector(c))
         /\ WF_vars(TextReturns(c))
         /\ WF_vars(VectorReturns(c))
         /\ WF_vars(PoolAwaitText(c))
         /\ WF_vars(PoolAwaitVector(c))

SpecPool == InitPool /\ [][NextPool]_vars /\ FairPool

NextRecommend == Tick \/ GetArticleRecommendations

SpecRecommend == InitRecommend /\ [][NextRecommend]_vars

NextFollow == FollowUser \/ UnfollowUser

SpecFollow == InitFollow /\ [][NextFollow]_vars

(***************************************************************************)
(* Properties                                                              *)
(***************************************************************************)
HasId(rows, id) == \E i \in DOMAIN rows : Get(rows[i], "id", NoId) = id

RowOf(rows, id) == rows[CHOOSE i \in DOMAIN rows : Get(rows[i], "id", NoId) = id]

\* C2: the candidate list handed to fusion holds each document id at most
\* once; an id found by both paths keeps the text path's bm25 and semantic
\* and gets the vector path's score, a vector-only id has bm25 = semantic = 0,
\* a text-only id has vector = 0.
C2_MergedById ==
    \A c \in CallIds :
        calls[c].merged =>
            LET cands == calls[c].candidates
                rows == calls[c].text.rows
                vec_res == calls[c].vector.rows
            IN  /\ \A i, j \in DOMAIN cands : cands[i].id = cands[j].id => i = j
                /\ \A i \in DOMAIN cands :
                     LET id == cands[i].id
                     IN  /\ HasId(rows, id) \/ HasId(vec_res, id)
                         /\ HasId(rows, id) =>
                              /\ cands[i]._bm25 = RowOf(rows, id)._bm25
                              /\ cands[i]._semantic = RowOf(rows, id)._semantic
                         /\ HasId(vec_res, id) =>
                              cands[i]._vector = RowOf(vec_res, id).score
                         /\ ~HasId(rows, id) =>
                              cands[i]._bm25 = Zero /\ cands[i]._semantic = Zero
                         /\ ~HasId(vec_res, id) => cands[i]._vector = Zero

\* a merge of an id found by both paths, a text-only id and a vector-only id
C2_Witness ==
    \E c \in CallIds :
        /\ calls[c].merged
        /\ \E i, j, k \in DOMAIN calls[c].candidates :
             LET cands == calls[c].candidates
             IN  /\ HasId(calls[c].text.rows, cands[i].id)
                 /\ HasId(calls[c].vector.rows, cands[i].id)
                 /\ RLt(Zero, cands[i]._vector) /\ RLt(Zero, cands[i]._bm25)
                 /\ ~HasId(calls[c].vector.rows, cands[j].id)
                 /\ ~HasId(calls[c].text.rows, cands[k].id)

WithoutFinal(r) == [key \in DOMAIN r \ {"_final"} |-> r[key]]

\* C3: fuse_articles and fuse_authors return exactly the input candidates,
\* each with _final assigned, ordered by _final descending, candidates of
\* equal _final in their input order (the inputs carry their input position
\* as id).
C3_FusePermutationSortedStable ==
    fusion.fn # None =>
        LET rows == fusion.rows
            out == fusion.out
        IN  /\ Len(out) = Len(rows)
            /\ \A i \in DOMAIN rows :
                 \E j \in DOMAIN out :
                     /\ "_final" \in DOMAIN out[j]
                     /\ WithoutFinal(out[j]) = rows[i]
            /\ \A i, j \in DOMAIN out :
                 i < j => /\ ~RLt(out[i]._final, out[j]._final)
                          /\ out[i]._final = out[j]._final => out[i].id < out[j].id

\* a fusion that reorders its input and has candidates of equal _final
C3_Witness ==
    /\ fusion.fn # None
    /\ Len(fusion.out) = MaxRows
    /\ fusion.out[1].id # 1
    /\ \E i, j \in DOMAIN fusion.out :
         i # j /\ fusion.out[i]._final = fusion.out[j]._final

ConfiguredWeights(fn) ==
    IF fn = "fuse_articles"
    THEN [semantic |-> w_semantic, bm25 |-> w_bm25,
          vector |-> w_vector, business |-> w_business]
    ELSE [semantic |-> aw_semantic, bm25 |-> aw_bm25,
          vector |-> aw_vector, business |-> aw_business]

WeightSum(w) == RAdd(RAdd(w.semantic, w.bm25), RAdd(w.vector, w.business))

\* the normalised components the fusion functions multiply the weights with
Components(fn, rows, r) ==
    LET bm25s == Column(rows, "_bm25")
        semantic_available == \E i \in DOMAIN rows : RLt(Zero, rows[i]._semantic)
    IN  [semantic |-> Norm(r._semantic, Minmax(Column(rows, "_semantic"))),
         bm25 |-> IF fn = "fuse_authors" /\ ~semantic_available
                     /\ RLt(Zero, RMaxSeq(bm25s))
                  THEN RDiv(r._bm25, RMaxSeq(bm25s))
                  ELSE Norm(r._bm25, Minmax(bm25s)),
         vector |-> Norm(r._vector, Minmax(Column(rows, "_vector"))),
         business |-> r._business]

Returned(c) == calls[c].pc = "done" /\ calls[c].response.status = "ok"

Paginated(c) == calls[c].page_index # NoPage /\ calls[c].page_size # NoPage

\* two calls met the same backend: the text task read the same flag and the
\* backend answered it alike, the authors index was read alike
SamePool(c1, c2) ==
    /\ calls[c1].text.sem_read = calls[c2].text.sem_read
    /\ calls[c1].text.rejected = calls[c2].text.rejected
    /\ calls[c1].authors_fetch = calls[c2].authors_fetch

\* the calls are paginated searches of the same kind for the same query and
\* page_size (k is the same for all callers)
SameSearch(c1, c2) ==
    /\ calls[c1].op \in {"search_articles", "search_authors"}
    /\ calls[c1].op = calls[c2].op
    /\ calls[c1].query = calls[c2].query
    /\ Paginated(c1) /\ Paginated(c2)
    /\ calls[c1].page_size = calls[c2].page_size

\* C1: two paginated searches of the same kind (articles or authors) for the
\* same query, k and page_size that reached their planned search use the
\* same search_k whatever their page_index values, and against the same
\* candidate pool they report the same total_results and total_pages.
C1_TotalsStableAcrossPages ==
    \A c1, c2 \in CallIds :
        /\ (SameSearch(c1, c2) /\ calls[c1].search_k > 0 /\ calls[c2].search_k > 0)
           => calls[c1].search_k = calls[c2].search_k
        /\ (SameSearch(c1, c2) /\ Returned(c1) /\ Returned(c2) /\ SamePool(c1, c2))
           => /\ calls[c1].response.pagination.total_results
                   = calls[c2].response.pagination.total_results
              /\ calls[c1].response.pagination.total_pages
                   = calls[c2].response.pagination.total_pages

\* page 0 and page 1 of the same article search, with more than one page
C1_Witness ==
    \E c1, c2 \in CallIds :
        /\ Returned(c1) /\ Returned(c2)
        /\ calls[c1].op = "search_articles" /\ calls[c2].op = "search_articles"
        /\ calls[c1].page_index = 0 /\ calls[c2].page_index = 1
        /\ SamePool(c1, c2)
        /\ calls[c1].response.pagination.total_pages > 1
        /\ calls[c2].response.results # <<>>

\* C5: a semantic text query rejected with a capability error makes the
\* same call set semantic_enabled to false and re-issue the query as a
\* simple query; the capability error does not reach the caller.
C5_CapabilityFallback ==
    \A c \in CallIds :
        (calls[c].text.rejected /\ calls[c].text.st \in {"ok", "failed"})
        => /\ ~semantic_enabled
           /\ Len(calls[c].text.requests) = 2
           /\ calls[c].text.requests[2].query_type = "simple"
           /\ calls[c].text.st = "failed"
                => calls[c].text.error # "SemanticQueriesNotAvailable"

\* C6: once semantic_enabled is false it stays false, and a search that
\* starts while it is false issues no semantic query.
C6_FlagOnlyDowngrades ==
    /\ [][semantic_enabled = FALSE => semantic_enabled' = FALSE]_vars
    /\ [](\A c \in CallIds :
            (calls[c].op # None /\ ~calls[c].sem_at_start)
            => \A i \in DOMAIN calls[c].text.requests :
                   calls[c].text.requests[i].query_type = "simple")

\* a call downgraded the flag and a later call ran its text query
C6_Witness ==
    \E c1, c2 \in CallIds :
        /\ calls[c1].sem_at_start /\ calls[c1].text.rejected
        /\ ~semantic_enabled
        /\ calls[c2].op # None /\ ~calls[c2].sem_at_start
        /\ calls[c2].text.st = "ok"

\* C7: candidates are merged only when both pool tasks have completed, and
\* two article searches that differ only in which task completed first
\* return the same response.
C7_MergeAfterBothOrderIndependent ==
    /\ \A c \in CallIds :
         calls[c].merged =>
             /\ calls[c].text.st = "ok" /\ calls[c].vector.st = "ok"
             /\ Len(calls[c].completed) = 2
    /\ \A c1, c2 \in CallIds :
         (/\ Returned(c1) /\ Returned(c2)
          /\ calls[c1].op = "search_articles" /\ calls[c2].op = "search_articles"
          /\ calls[c1].query = calls[c2].query
          /\ calls[c1].page_index = calls[c2].page_index
          /\ SamePool(c1, c2))
         => calls[c1].response = calls[c2].response

\* the text task completed first in one search, the vector task in the other
C7_Witness ==
    \E c1, c2 \in CallIds :
        /\ Returned(c1) /\ Returned(c2)
        /\ calls[c1].op = "search_articles" /\ calls[c2].op = "search_articles"
        /\ calls[c1].page_index = calls[c2].page_index
        /\ SamePool(c1, c2)
        /\ calls[c1].completed = <<"text", "vector">>
        /\ calls[c2].completed = <<"vector", "text">>
        /\ Len(calls[c1].response.results) > 1

\* C8: an article search one of whose tasks failed ends with that task's
\* error, and a returned ranking comes from two completed tasks.
C8_TaskFailureFailsCall ==
    \A c \in CallIds :
        (calls[c].op = "search_articles" /\ calls[c].pc = "done")
        => /\ calls[c].text.st = "failed"
                => calls[c].response = Raised(calls[c].text.error)
           /\ (calls[c].text.st = "ok" /\ calls[c].vector.st = "failed")
                => calls[c].response = Raised(calls[c].vector.error)
           /\ calls[c].response.status = "ok"
                => calls[c].text.st = "ok" /\ calls[c].vector.st = "ok"

\* the text task returned rows, the vector task failed, the call raised
C8_Witness ==
    \E c \in CallIds :
        /\ calls[c].op = "search_articles" /\ calls[c].pc = "done"
        /\ calls[c].text.st = "ok" /\ calls[c].text.rows # <<>>
        /\ calls[c].vector.st = "failed"
        /\ calls[c].response.status = "error"

\* a backend request of the call failed
RetrievalFailed(c) ==
    \/ calls[c].text.st = "failed"
    \/ calls[c].vector.st = "failed"
    \/ calls[c].authors_fetch = "failed"

\* C9: a call of search, search_articles or search_authors whose backend
\* retrieval failed ends as a failure, never as a returned response.
C9_BackendFailureSurfaces ==
    \A c \in CallIds :
        (calls[c].pc = "done" /\ RetrievalFailed(c))
        => calls[c].response.status = "error"

\* the planner outcome of the public call: search_articles or search_authors
PlannerOutcome(c) ==
    IF calls[c].op = "search_articles" THEN calls[c].articles_plan
    ELSE calls[c].authors_plan

\* C10: when plan_query raises or returns a plan without normalized_query
\* or without search_parameters, search_articles / search_authors search
\* with the original query and no search parameters, and no call fails
\* because of the planner.
C10_PlannerDegradation ==
    \A c \in CallIds :
        (/\ calls[c].pc = "done"
         /\ calls[c].op \in {"search_articles", "search_authors"}
         /\ PlannerOutcome(c) \in {"raised", "no_normalized_query",
                                   "no_search_parameters"})
        => /\ calls[c].response.status = "error"
                => calls[c].response.error # "KeyError"
           /\ calls[c].response.status = "ok"
                => calls[c].response.normalized_query = calls[c].query
           /\ \A i \in DOMAIN calls[c].text.requests :
                  /\ calls[c].text.requests[i].search_text = calls[c].query
                  /\ calls[c].text.requests[i].filter = ""

(***************************************************************************)
(* _batch_get_documents                                                    *)
(***************************************************************************)
RequestsOf(op) == {i \in DOMAIN batch.requests : batch.requests[i].op = op}

\* C11: _batch_get_documents with a non-empty id list sends exactly one
\* search, filtered on the requested ids; get_document requests are sent
\* only after that search raised, one per entry of the id list at most and
\* in the order of the list; with an empty id list it sends nothing and
\* returns an empty mapping.
C11_BatchGetDocuments ==
    LET ids == batch.document_ids
        reqs == batch.requests
        gets == RequestsOf("get_document")
    IN  /\ ids = <<>> =>
            /\ reqs = <<>>
            /\ batch.pc = "returned" => batch.doc_dict = <<>>
        /\ (ids # <<>> /\ batch.pc \in {"fallback", "returned"}) =>
            /\ Cardinality(RequestsOf("search")) = 1
            /\ reqs[1] = [op |-> "search",
                          filter |-> [ids |-> Elements(ids),
                                      app_id |-> batch.app_id],
                          top |-> Len(ids)]
        /\ gets # {} => batch.batch_raised
        /\ Cardinality(gets) <= Len(ids)
        /\ \A i \in gets : reqs[i].key = ids[i - 1]
        /\ (batch.pc = "returned" /\ ~batch.batch_raised) => gets = {}
        /\ \A i \in DOMAIN batch.doc_dict :
             batch.doc_dict[i].id \in Elements(ids)

\* a call whose batch search raised and that fetched every id on its own,
\* one of them without success
C11_Witness ==
    /\ batch.pc = "returned"
    /\ batch.batch_raised
    /\ Len(batch.document_ids) = MaxIds
    /\ Cardinality(RequestsOf("get_document")) = MaxIds
    /\ Len(batch.doc_dict) = 1

(***************************************************************************)
(* _minmax / _norm                                                         *)
(***************************************************************************)
\* C12: normalising a non-empty list of identical raw values with the
\* bounds computed from that list yields 1.0 for every value.
C12_TiesNormalizeToOne ==
    (direct.fn = "_norm"
        /\ \A i \in DOMAIN direct.vs : direct.vs[i] = direct.vs[1]) =>
        \A i \in DOMAIN direct.out : direct.out[i] = One

(***************************************************************************)
(* search_authors                                                          *)
(***************************************************************************)
AuthorsReturnedOk(c) ==
    /\ calls[c].op = "search_authors"
    /\ Returned(c)

PositionOf(rows, id) == CHOOSE i \in DOMAIN rows : rows[i].id = id

\* C13: every row search_authors hands to fuse_authors carries a score in
\* _bm25 and zero in _semantic, _vector and _business; every returned author
\* is one of these rows with _final = (aw_bm25 + aw_semantic) * score /
\* max_score; the returned authors are in descending score order, authors
\* of equal score in the order of the fuzzy matcher.
C13_AuthorsFromFuzzyOnly ==
    \A c \in CallIds :
        AuthorsReturnedOk(c) =>
            LET rows == calls[c].author_rows
                results == calls[c].response.results
                max_score == RMaxSeq(Column(rows, "_bm25"))
            IN  /\ \A i \in DOMAIN rows :
                     /\ RLt(Zero, rows[i]._bm25)
                     /\ rows[i]._semantic = Zero
                     /\ rows[i]._vector = Zero
                     /\ rows[i]._business = Zero
                /\ \A i \in DOMAIN results :
                     /\ HasId(rows, results[i].id)
                     /\ WithoutFinal(results[i]) = RowOf(rows, results[i].id)
                     /\ results[i]._final =
                            RMul(RAdd(aw_bm25, aw_semantic),
                                 RDiv(results[i]._bm25, max_score))
                /\ \A i, j \in DOMAIN results :
                     i < j =>
                        /\ RLe(results[j]._bm25, results[i]._bm25)
                        /\ PositionOf(rows, results[i].id)
                               < PositionOf(rows, results[j].id)

\* an authors search over three matching authors that returned two of equal
\* score, the one with the larger id first as the fuzzy matcher ranked them,
\* and whose third match scores lower
C13_Witness ==
    \E c \in CallIds :
        /\ AuthorsReturnedOk(c)
        /\ Len(calls[c].author_rows) = 3
        /\ Len(calls[c].response.results) = 2
        /\ calls[c].response.results[1]._bm25 = calls[c].response.results[2]._bm25
        /\ calls[c].response.results[1].id > calls[c].response.results[2].id
        /\ RLt(calls[c].author_rows[3]._bm25, calls[c].author_rows[2]._bm25)

(***************************************************************************)
(* _fuzzy_match_authors                                                    *)
(***************************************************************************)
FuzzyReturned == direct.fn = "_fuzzy_match_authors" /\ ~direct.raised

InclusionFloor == R(5, 100)

IsReturned(author) ==
    \E i \in DOMAIN direct.matches : direct.matches[i].author = author

\* C14: _fuzzy_match_authors returns at most k pairs; every pair holds an
\* author of the input list, no input record twice, with a score above the
\* floor 0.05 and at most 1.0; the pairs are in descending score order; no
\* author left out scores higher than a returned one, and an author above
\* the floor is left out only when k pairs are returned.
C14_FuzzyTopK ==
    FuzzyReturned =>
        LET matches == direct.matches
            scored == direct.scored
        IN  /\ Len(matches) <= direct.k
            /\ \A i \in DOMAIN matches :
                 /\ InSeq(matches[i].author, direct.all_authors)
                 /\ \E j \in DOMAIN scored :
                      /\ scored[j].author = matches[i].author
                      /\ scored[j].score = matches[i].score
                 /\ RLt(InclusionFloor, matches[i].score)
                 /\ RLe(matches[i].score, One)
            /\ \A i, j \in DOMAIN matches :
                 i < j =>
                    /\ matches[i].author # matches[j].author
                    /\ RLe(matches[j].score, matches[i].score)
            /\ \A j \in DOMAIN scored :
                 ~IsReturned(scored[j].author) =>
                    /\ \A i \in DOMAIN matches :
                         RLe(scored[j].score, matches[i].score)
                    /\ RLt(InclusionFloor, scored[j].score) =>
                         Len(matches) = direct.k

\* a call with k = 2 on three authors above the floor, listed with the best
\* match last: the two best are returned, the weakest is left out
C14_Witness ==
    /\ FuzzyReturned
    /\ direct.k = 2
    /\ Len(direct.scored) = 3
    /\ Len(direct.matches) = 2
    /\ \A j \in DOMAIN direct.scored : RLt(InclusionFloor, direct.scored[j].score)
    /\ RLt(direct.scored[1].score, direct.scored[2].score)
    /\ RLt(direct.scored[2].score, direct.scored[3].score)
    /\ direct.matches[1].author = direct.scored[3].author
    /\ ~IsReturned(direct.scored[1].author)

\* the authors of the input list whose full_name equals the query after
\* normalisation
ExactlyNamed ==
    {i \in DOMAIN direct.all_authors :
        /\ "full_name" \in DOMAIN direct.all_authors[i]
        /\ normalize_text(direct.all_authors[i].full_name)
               = normalize_text(direct.query)}

\* C15: an author whose full_name equals the query after normalisation is
\* scored exactly 1.0, and no author with a lower score is ranked above it.
C15_ExactMatchScoresOne ==
    direct.fn = "_fuzzy_match_authors" =>
        \A i \in ExactlyNamed :
            /\ ~direct.raised
            /\ \E j \in DOMAIN direct.scored :
                 /\ direct.scored[j].author = direct.all_authors[i]
                 /\ direct.scored[j].score = One
            /\ \A m \in DOMAIN direct.matches :
                 direct.matches[m].author = direct.all_authors[i] =>
                    \A n \in 1 .. m - 1 : direct.matches[n].score = One
            /\ ~IsReturned(direct.all_authors[i]) =>
                 \A n \in DOMAIN direct.matches : direct.matches[n].score = One

\* the maximum of a non-empty set of rationals
RMaxOf(S) == CHOOSE v \in S : \A w \in S : RLe(w, v)

\* C16: the score of an author before the bonus is the maximum of 1.0 for
\* an exact normalised match, 0.9 x the whole-string similarity, 0.95 x the
\* word-match ratio, the weighted substring score and 0.7 for an initials
\* match.
C16_MaxOfFiveStrategies ==
    FuzzyReturned =>
        \A j \in DOMAIN direct.scored :
            LET s == direct.scored[j].strategies
                initials_match == RLt(Zero, s.initials_score)
            IN  direct.scored[j].combined =
                    RMaxOf({ IF s.exact_match_score = One THEN One ELSE Zero,
                             RMul(R(9, 10), s.full_similarity),
                             RMul(R(95, 100), s.word_match_score),
                             RMul(R(85, 100), s.substring_score),
                             IF initials_match THEN R(7, 10) ELSE Zero })

(***************************************************************************)
(* _apply_score_threshold                                                  *)
(***************************************************************************)
Ranked == direct.fn = "_search_articles_planned"

FilterOn ==
    /\ direct.cfg.enable_score_filtering
    /\ RLt(Zero, direct.cfg.score_threshold)

\* C17: _apply_score_threshold returns the fused list unchanged when
\* filtering is disabled or the threshold is <= 0, and otherwise exactly the
\* candidates with _final >= threshold in their order; total_results,
\* total_pages and the page (or the first k) are taken from the survivors.
C17_ThresholdBeforePagination ==
    Ranked =>
        LET fused == direct.fused
            filtered == direct.filtered
            response == direct.response
            n == Len(filtered)
        IN  /\ ~FilterOn => filtered = fused
            /\ FilterOn =>
                /\ \A i \in DOMAIN fused :
                     HasId(filtered, fused[i].id)
                         <=> RLe(direct.cfg.score_threshold, fused[i]._final)
                /\ \A i \in DOMAIN filtered :
                     /\ HasId(fused, filtered[i].id)
                     /\ filtered[i] = RowOf(fused, filtered[i].id)
                /\ \A i, j \in DOMAIN filtered :
                     i < j => PositionOf(fused, filtered[i].id)
                                  < PositionOf(fused, filtered[j].id)
            /\ direct.page_index # NoPage =>
                /\ response.pagination.total_results = n
                /\ response.pagination.total_pages =
                       (IF n > 0 THEN CeilDiv(n, direct.page_size) ELSE 1)
                /\ response.results =
                       Slice(filtered, direct.page_index * direct.page_size,
                             (direct.page_index + 1) * direct.page_size)
            /\ direct.page_index = NoPage =>
                response.results = Slice(filtered, 0, direct.k)

\* a paginated search whose fusion reorders three candidates, whose
\* threshold drops one of them and whose page holds the two survivors
C17_Witness ==
    /\ Ranked
    /\ FilterOn
    /\ Len(direct.fused) = 3
    /\ Len(direct.filtered) = 2
    /\ direct.page_index = 0
    /\ direct.page_size = 2
    /\ direct.response.results = direct.filtered
    /\ direct.response.pagination.total_results = 2
    /\ direct.rows[1].id # direct.fused[1].id

(***************************************************************************)
(* business_freshness                                                      *)
(***************************************************************************)
FreshnessCalled == direct.fn = "business_freshness"

\* a value that holds no date: absent or empty, an unparseable string, a
\* value of an unsupported type, a dict without a timestamp key
NotADate(value) ==
    value.kind \in {"none", "empty", "garbage", "other", "empty_dict",
                    "dict_without_date"}

\* C18: business_freshness returns exactly 0.0, and does not raise, for an
\* absent value and for every value that cannot be interpreted as a date,
\* also when a dict holds such a value under its timestamp key.
C18_FreshnessDegradesToZero ==
    FreshnessCalled =>
        LET value == direct.business_date
        IN  (\/ NotADate(value)
             \/ value.kind = "dict" /\ NotADate(value.value)) =>
                direct.out = Zero

\* business_freshness was called on a dict that holds an unparseable string
C18_Witness ==
    /\ FreshnessCalled
    /\ direct.business_date = DictWith(GarbageDate)
    /\ direct.out = Zero

\* a value that is a timestamp: a datetime, a string in a tolerated format,
\* epoch seconds or milliseconds
IsTimestamp(value) == value.kind \in {"date", "text", "datetime", "epoch"}

\* its age in days at the time of the call
TrueAge(value) ==
    IF value.kind = "epoch" THEN NowDays - value.days ELSE value.age

\* C19: for every parseable timestamp business_freshness lies in (0, 1], is
\* 1.0 when the age is 0 days or the timestamp lies in the future, and is
\* 1 / 2^n at an age of n half-lives (it halves per half-life and never
\* increases with age).
C19_FreshnessDecay ==
    (FreshnessCalled /\ IsTimestamp(direct.business_date)) =>
        LET age == TrueAge(direct.business_date)
        IN  /\ RLt(Zero, direct.out)
            /\ RLe(direct.out, One)
            /\ age <= 0 => direct.out = One
            /\ age \in Ages =>
                 RMul(direct.out,
                      R(Pow2((IF age > 0 THEN age ELSE 0)
                                 \div freshness_halflife_days), 1)) = One

(***************************************************************************)
(* fuse_articles / fuse_authors on malformed candidates                    *)
(***************************************************************************)
Malformed(r) ==
    \/ \E key \in ScoreKeys : key \notin DOMAIN r
    \/ \E key \in ScoreKeys \cap DOMAIN r : r[key] = NotANumber

\* C20: a call of fuse_articles / fuse_authors on a list with a malformed
\* candidate (a score key missing, or a value that is no number) raises to
\* its caller and returns no ranked list.
C20_ScoringErrorPropagates ==
    (direct.fn \in {"fuse_articles", "fuse_authors"}
        /\ \E i \in DOMAIN direct.rows : Malformed(direct.rows[i])) =>
            /\ direct.raised
            /\ direct.out = <<>>

(***************************************************************************)
(* Pagination metadata                                                     *)
(***************************************************************************)
Paged == direct.fn \in {"_search_articles_planned", "_search_authors_planned"}

\* elements [from, to) of a list, counted from 0
Elems(xs, from, to) == [i \in 1 .. (IF to > from THEN to - from ELSE 0) |-> xs[from + i]]

\* the results of the same search asked for page q
PageResults(q) ==
    IF direct.search_type = "articles"
    THEN ArticlesResponse(direct.rows, direct.cfg, <<>>, direct.k, q,
                          direct.page_size).results
    ELSE AuthorsResponse([raised |-> FALSE, matches |-> direct.rows],
                         direct.cfg, <<>>, direct.k, q, direct.page_size).results

RECURSIVE PagesUpTo(_)
PagesUpTo(count) ==
    IF count = 0 THEN <<>> ELSE PagesUpTo(count - 1) \o PageResults(count - 1)

\* what every page says whatever the length of the list
PageAgrees(total_pages) ==
    LET list == direct.ranked
        n == Len(list)
        s == direct.page_size
        p == direct.page_index
        page == direct.response.pagination
    IN  /\ direct.response.results =
               Elems(list, Min(p * s, n), Min((p + 1) * s, n))
        /\ page.total_results = n
        /\ page.total_pages = total_pages
        /\ page.has_next <=> (p + 1) * s < n
        /\ page.has_previous <=> p > 0
        /\ PagesUpTo(page.total_pages) = list

\* C21 as stated: the page for page_index p holds elements
\* [p*s, min((p+1)*s, n)) of the fused, filtered, sorted list, total_results
\* = n, total_pages = ceil(n / s), has_next iff page p+1 is non-empty,
\* has_previous iff p > 0, and pages 0 .. total_pages-1 concatenate to the list.
C21_PaginationAgrees ==
    Paged => PageAgrees((Len(direct.ranked) + direct.page_size - 1)
                            \div direct.page_size)

\* C21 amended: as above, with total_pages = ceil(n / s) for n > 0 and
\* total_pages = 1 for the empty list, whose single page 0 is empty.
C21_PaginationAgreesOnePageWhenEmpty ==
    Paged => PageAgrees(IF Len(direct.ranked) > 0
                        THEN (Len(direct.ranked) + direct.page_size - 1)
                                 \div direct.page_size
                        ELSE 1)

\* the second of two pages of three ranked authors, one author on it
C21_Witness ==
    /\ direct.fn = "_search_authors_planned"
    /\ Len(direct.ranked) = 3
    /\ direct.page_size = 2
    /\ direct.page_index = 1
    /\ direct.response.results = <<direct.ranked[3]>>
    /\ direct.response.pagination.total_pages = 2
    /\ ~direct.response.pagination.has_next
    /\ direct.response.pagination.has_previous

(***************************************************************************)
(* Freshness of the candidates handed to fuse_articles                     *)
(***************************************************************************)
\* C22: every article candidate handed to fusion has _business equal to
\* business_freshness of its own document's business_date, whether it came
\* from the text path, from the vector path only, or from both.
C22_BusinessOfOwnDocument ==
    \A c \in CallIds :
        calls[c].merged =>
            \A i \in DOMAIN calls[c].candidates :
                calls[c].candidates[i]._business =
                    business_freshness(Get(calls[c].candidates[i].doc,
                                           "business_date", NoDate))

(***************************************************************************)
(* ai_search SearchService: totals across pages                            *)
(***************************************************************************)
AiPaged == direct.fn \in {"_search_articles_planned", "_search_authors_planned"}

\* C23: for a fixed query, k, page_size and candidate pool, the ai_search
\* responses for page 0 and page 1 report the same total_results and the
\* same total_pages.
C23_AiTotalsStableAcrossPages ==
    (AiPaged /\ direct.pages[0].status = "ok" /\ direct.pages[1].status = "ok") =>
        /\ direct.pages[0].pagination.total_results
               = direct.pages[1].pagination.total_results
        /\ direct.pages[0].pagination.total_pages
               = direct.pages[1].pagination.total_pages

\* C24: _fuzzy_match_authors never raises, whatever the query (one that
\* normalises to the empty string included) and whatever the author records
\* (names missing, empty or made of punctuation included): it returns a list.
C24_FuzzyNeverRaises ==
    direct.fn = "_fuzzy_match_authors" => ~direct.raised

\* C25: a query whose normalised form holds no word (empty or punctuation
\* only) gets no fuzzy match: a call that returns, returns the empty list
\* whatever the author list is.
C25_WordlessQueryMatchesNothing ==
    (FuzzyReturned /\ Split(normalize_text(direct.query)) = <<>>) =>
        direct.matches = <<>>

(***************************************************************************)
(* The worker pool                                                         *)
(***************************************************************************)
PoolCompleted(c) == direct.pc[c] \in {"returned", "raised"}

\* C26: with the pool of 4 workers and several search calls running at once
\* on the instance, every search call that started eventually returns or
\* raises, provided every backend / embedding call returns.
C26_EveryCallCompletes ==
    \A c \in PoolCalls : (direct.pc[c] # "idle") ~> PoolCompleted(c)

\* every worker is busy, a task waits in the work queue, and a caller has
\* collected the result of its text task and waits for its vector task
C26_Witness ==
    /\ Busy(direct) = max_workers
    /\ direct.queue # <<>>
    /\ \E c \in PoolCalls :
         /\ direct.pc[c] = "await_vector"
         /\ direct.text[c] = "ok"

(***************************************************************************)
(* The recommendation cache                                                *)
(***************************************************************************)
\* the last step was a call of get_article_recommendations
Recommended == direct.fn = "get_article_recommendations"

\* the stored recommendations were non-empty and less than 60 minutes old
\* when the call began
WasFresh ==
    /\ direct.call.before.recommended # <<>>
    /\ direct.call.before.recommended_time >= 0
    /\ direct.call.at - direct.call.before.recommended_time < 60

ServedFromStore ==
    /\ direct.call.recommendations = direct.call.before.recommended
    /\ ~direct.call.was_refreshed
    /\ direct.article = direct.call.before

Refreshed ==
    /\ direct.call.recommendations = direct.call.fresh
    /\ direct.call.was_refreshed
    /\ direct.article.recommended = direct.call.fresh
    /\ direct.article.recommended_time = direct.call.at

Followed == direct.fn \in {"follow_user", "unfollow_user"}

\* C30: after any sequence of follow_user / unfollow_user calls, whatever each
\* call returned, B is in A.following if and only if A is in B.followers, for
\* all users A and B.
C30_FollowSymmetry ==
    Followed =>
        \A a, b \in UserIds :
            (b \in direct.users[a].following) <=> (a \in direct.users[b].followers)

====
